---- MODULE Spec2Model ----
(***************************************************************************)
(* Model of the xod2-libraries-index tools.                                *)
(*                                                                         *)
(*   tools/sync-xodio.js    catalog synchronisation (crawl, detail,        *)
(*                          normalise, write)                              *)
(*   tools/mirror-xodio.js  incremental artifact mirror                    *)
(*                                                                         *)
(* Five specifications share the module and its variables:                *)
(*   SpecFetch   the two retry layers, fetchHtmlWithRetry (sync) and       *)
(*               fetchJsonWithRetry (mirror), one step per await           *)
(*   SpecMirror  a sequence of mirror runs over a changing catalog/disk    *)
(*   SpecSync    one sync run: list crawl, detail loop, catalog write      *)
(*   SpecNormalize  the merge/normalize step on one discovered record and  *)
(*               one overlay entry, and the sorted list of a small batch   *)
(*   SpecIds     normalizeId on short strings, and on its own result       *)
(* Strings of the program that the code takes apart (ids, versions, keys,  *)
(* paths) are sequences of one-character strings.                          *)
(***************************************************************************)
EXTENDS Integers, Sequences, FiniteSets, TLC

VARIABLES
    \* ---- fetch layer (SpecFetch) ----
    f_layer,      \* "none" | "html" | "json": which retry function is running
    f_url,        \* its url argument
    f_pc,         \* "idle" | "loopTop" | "headers" | "body" | "sleep" | "returned" | "thrown"
    f_attempt,    \* the local `attempt`
    f_lastError,  \* the local `lastError`
    f_timer,      \* TRUE while the setTimeout(abort) timer is armed
    f_result,     \* the value returned, or the error thrown
    f_requests,   \* history: number of fetch() calls issued by this call
    f_waits,      \* history: the delays slept, in order
    f_lastStatus, \* history: status of the response that ended the current attempt, 0 if none
    f_all503,     \* history: every attempt so far was answered with HTTP 503
    f_exhausted503, \* history: the layers in which a call failed after only-503 answers
    \* ---- mirror (SpecMirror): files ----
    d_index,      \* index/index.json: the catalog document, or absent
    d_state,      \* mirror/state.json
    d_manifest,   \* mirror/index.json
    d_files,      \* the other files on disk: absolute path -> content
    \* ---- mirror: locals of run() ----
    m_pc,         \* "idle" | "loop" | "writeState" | "done" | "aborted" | "interrupted"
    m_prior,      \* priorArtifacts
    m_next,       \* nextArtifacts
    m_stats,      \* stats
    m_queue,      \* the (library, version) candidates the loops have yet to reach
    m_template,   \* pathTemplate
    m_artifacts,  \* artifacts (the sorted view), once derived
    \* ---- mirror: history ----
    h_run,        \* number of runs started (also the clock of generatedAt/mirroredAt)
    h_outcome,    \* this run: candidate key -> "skipped" | "downloaded" | "failed"
    h_requests,   \* this run: candidate key -> number of fetchJsonWithRetry calls for it
    h_filesAtStart, \* the paths on disk when this run started
    h_prevOk,     \* the last run ended with failed = 0 and nothing changed since
    h_clean,      \* this run started right after such a run
    h_start,      \* what the run found: the service description, state, manifest, files
    \* ---- sync (SpecSync): locals of run() ----
    s_pc,         \* "idle" | "crawl" | "detail" | "rename" | "written" | "failed"
    s_page,       \* page
    s_seenIds,    \* seenIds
    s_discoveredIds, \* discoveredIds
    s_uniqueIds,  \* uniqueIds
    s_queue,      \* the identifiers of uniqueIds the detail loop has yet to reach
    s_libraries,  \* libraries
    s_skippedIds, \* skippedIds
    s_tmp,        \* index/index.json.tmp
    s_overlay,    \* overlay: the members of the map readOverlayMap returned
    d_overlay,    \* index/overlay.json
    \* ---- sync: history ----
    s_pagesFetched, \* number of fetchListPage calls
    s_lastPage,   \* what the last fetchListPage call yielded, with the ids that were new
    s_detail,     \* identifier -> how its iteration of the detail loop ended
    s_failure,    \* the error run() threw, "none" if none
    s_indexBefore, \* index/index.json when the run started
    \* ---- merge and normalisation (SpecNormalize) ----
    n_pc,         \* "idle" | "start" | "merged" | "normalized" | "once" | "twice"
    n_base,       \* baseLib: the record fetchLibraryDetail returned
    n_entry,      \* overlayEntry: overlay[id] || {}
    n_merged,     \* merged, the result of deepMerge
    n_out,        \* the record normalizeLibraryRecord returned
    n_first,      \* libraries after the detail loop and the sort, first run
    n_second,     \* the same of a second run on the same records and overlay
    \* ---- identifiers (SpecIds) ----
    i_pc,         \* "idle" | "start" | "normalized" | "again"
    i_input,      \* the argument of normalizeId
    i_out,        \* what normalizeId returned for it
    i_again       \* what normalizeId returned for i_out

fetchVars == <<f_layer, f_url, f_pc, f_attempt, f_lastError, f_timer, f_result,
               f_requests, f_waits, f_lastStatus, f_all503, f_exhausted503>>

diskVars == <<d_index, d_state, d_manifest, d_files>>

mirrorVars == <<m_pc, m_prior, m_next, m_stats, m_queue, m_template, m_artifacts>>

historyVars == <<h_run, h_outcome, h_requests, h_filesAtStart, h_prevOk, h_clean, h_start>>

syncVars == <<s_pc, s_page, s_seenIds, s_discoveredIds, s_uniqueIds, s_queue,
              s_libraries, s_skippedIds, s_tmp, s_overlay, d_overlay,
              s_pagesFetched, s_lastPage, s_detail, s_failure, s_indexBefore>>

normVars == <<n_pc, n_base, n_entry, n_merged, n_out, n_first, n_second>>

idVars == <<i_pc, i_input, i_out, i_again>>

notFetchVars == <<diskVars, mirrorVars, historyVars, syncVars, normVars, idVars>>

notMirrorVars == <<fetchVars, syncVars, normVars, idVars>>

notSyncVars ==
    <<fetchVars, mirrorVars, historyVars, d_state, d_manifest, d_files, normVars, idVars>>

notNormVars == <<fetchVars, diskVars, mirrorVars, historyVars, syncVars, idVars>>

notIdVars == <<fetchVars, diskVars, mirrorVars, historyVars, syncVars, normVars>>

vars == <<fetchVars, diskVars, mirrorVars, historyVars, syncVars, normVars, idVars>>

\* ------------------------------------------------------------------------
\* Program constants
\* ------------------------------------------------------------------------
MAX_FETCH_RETRIES == 4

SYNC_RETRY_BASE_DELAY_MS == 1500

MIRROR_RETRY_BASE_DELAY_MS == 1200

REQUEST_TIMEOUT_MS == 20000

MAX_NORMALIZE_RETRIES == 3

SYNC_RETRYABLE_STATUS_CODES == {429, 500, 502, 503, 504}

MIRROR_RETRYABLE_STATUS_CODES == {408, 429, 500, 502, 503, 504}

\* The statuses a server answers with in the model: one success, two client
\* errors that no layer retries, and every status either layer retries.
Statuses == {200, 403, 404, 408, 429, 500, 502, 503, 504}

\* response.ok: status in the range 200-299
ResponseOk(status) == status >= 200 /\ status <= 299

Urls == {"u1", "u2"}

\* ------------------------------------------------------------------------
\* Errors (an Error's message, kept structured)
\* ------------------------------------------------------------------------
NoError == [kind |-> "none"]

\* new Error(`HTTP ${status}`)
HttpError(status) == [kind |-> "http", status |-> status]

\* fetch() rejecting: connection failure
NetworkError == [kind |-> "network"]

\* fetch() or a body read rejecting because controller.abort() ran
AbortError == [kind |-> "abort"]

\* response.json() rejecting on a body that is not JSON
ParseError == [kind |-> "parse"]

\* fetchHtml's catch: new Error(`Failed to fetch ${url}: ${error.message}`)
FetchHtmlError(url, cause) == [kind |-> "fetchHtml", url |-> url, cause |-> cause]

\* `Failed to fetch ${url} after ${retries + 1} attempts: ${lastError.message}`
ExhaustedError(url, retries, last) ==
    [kind |-> "exhausted", url |-> url, attempts |-> retries + 1, last |-> last]

\* ------------------------------------------------------------------------
\* Resilient fetch layer: fetchHtml / fetchHtmlWithRetry (sync) and
\* fetchWithTimeout / fetchJsonWithRetry (mirror)
\* ------------------------------------------------------------------------
NoResult == [kind |-> "none"]

\* `while (attempt <= retries)`
WhileAttemptsRemain(attempt, retries) == attempt <= retries

\* Mutant: the break one attempt early (`attempt >= retries`).
BreakBeforeSleep_OneEarly(attempt, retries) == attempt >= retries

\* `if (attempt > retries) break;`
BreakBeforeSleep(attempt, retries) == attempt > retries

\* Mutant: only a success response is handed to the caller.
HtmlReturnsResult_OnlyOk(status) == ResponseOk(status)

\* `if (result.ok || !RETRYABLE_STATUS_CODES.has(result.status)) return result;`
HtmlReturnsResult(status) ==
    ResponseOk(status) \/ status \notin SYNC_RETRYABLE_STATUS_CODES

\* `if (!RETRYABLE_STATUS_CODES.has(response.status)) throw new Error(...)`
JsonThrowsOnStatus(status) == status \notin MIRROR_RETRYABLE_STATUS_CODES

\* the catch of fetchJsonWithRetry: an `HTTP <n>` message with n not retryable breaks
JsonCatchBreaks(error) ==
    error.kind = "http" /\ error.status \notin MIRROR_RETRYABLE_STATUS_CODES

FetchBaseDelay(layer) ==
    IF layer = "html" THEN SYNC_RETRY_BASE_DELAY_MS ELSE MIRROR_RETRY_BASE_DELAY_MS

\* The timer of an attempt once the response headers have arrived with a success
\* status and the body is still to be read.  fetchHtml reads the body inside its
\* try, before the finally clears the timer; fetchWithTimeout returns the response
\* and its finally clears the timer before response.json() is called.
TimerArmedDuringBody(layer) == layer = "html"

\* The tail of one loop iteration after a failed attempt: break and throw when no
\* attempt remains, else sleep RETRY_BASE_DELAY_MS * attempt.
fetch_AfterFailedAttempt(error, from503) ==
    /\ f_lastError' = error
    /\ f_timer' = FALSE
    /\ f_all503' = (f_all503 /\ from503)
    /\ IF BreakBeforeSleep(f_attempt, MAX_FETCH_RETRIES)
         THEN /\ f_pc' = "thrown"
              /\ f_result' = ExhaustedError(f_url, MAX_FETCH_RETRIES, error)
              /\ f_waits' = f_waits
              /\ f_exhausted503' = IF f_all503 /\ from503
                                     THEN f_exhausted503 \cup {f_layer}
                                     ELSE f_exhausted503
         ELSE /\ f_pc' = "sleep"
              /\ f_result' = f_result
              /\ f_waits' = Append(f_waits, FetchBaseDelay(f_layer) * f_attempt)
              /\ f_exhausted503' = f_exhausted503

\* A caller invokes fetchHtmlWithRetry(url) or fetchJsonWithRetry(url).
fetch_Call ==
    /\ UNCHANGED notFetchVars
    /\ f_pc \in {"idle", "returned", "thrown"}
    /\ \E layer \in {"html", "json"}, url \in Urls :
         /\ f_layer' = layer
         /\ f_url' = url
    /\ f_pc' = "loopTop"
    /\ f_attempt' = 0
    /\ f_lastError' = NoError
    /\ f_timer' = FALSE
    /\ f_result' = NoResult
    /\ f_requests' = 0
    /\ f_waits' = <<>>
    /\ f_lastStatus' = 0
    /\ f_all503' = TRUE
    /\ UNCHANGED f_exhausted503

\* Loop head: attempt += 1, arm the abort timer, issue fetch().
fetch_BeginAttempt ==
    /\ UNCHANGED notFetchVars
    /\ f_pc = "loopTop"
    /\ IF WhileAttemptsRemain(f_attempt, MAX_FETCH_RETRIES)
         THEN /\ f_attempt' = f_attempt + 1
              /\ f_timer' = TRUE
              /\ f_requests' = f_requests + 1
              /\ f_pc' = "headers"
              /\ f_result' = f_result
         ELSE /\ f_pc' = "thrown"
              /\ f_result' = ExhaustedError(f_url, MAX_FETCH_RETRIES, f_lastError)
              /\ UNCHANGED <<f_attempt, f_timer, f_requests>>
    /\ f_lastStatus' = 0
    /\ UNCHANGED <<f_layer, f_url, f_lastError, f_waits, f_all503, f_exhausted503>>

\* fetchHtml: the response headers arrive with some status.
fetchHtml_Response ==
    /\ UNCHANGED notFetchVars
    /\ f_layer = "html" /\ f_pc = "headers"
    /\ \E status \in Statuses :
         /\ f_lastStatus' = status
         /\ IF ResponseOk(status)
              THEN \* await response.text(), timer still armed
                   /\ f_pc' = "body"
                   /\ f_timer' = TimerArmedDuringBody("html")
                   /\ f_all503' = FALSE
                   /\ UNCHANGED <<f_lastError, f_result, f_waits, f_exhausted503>>
              ELSE IF HtmlReturnsResult(status)
                THEN /\ f_pc' = "returned"
                     /\ f_result' = [kind |-> "html", ok |-> FALSE, status |-> status, url |-> f_url]
                     /\ f_timer' = FALSE
                     /\ f_all503' = FALSE
                     /\ UNCHANGED <<f_lastError, f_waits, f_exhausted503>>
                ELSE fetch_AfterFailedAttempt(HttpError(status), status = 503)
    /\ UNCHANGED <<f_layer, f_url, f_attempt, f_requests>>

\* fetchHtml: response.text() resolves.
fetchHtml_Body ==
    /\ UNCHANGED notFetchVars
    /\ f_layer = "html" /\ f_pc = "body"
    /\ f_pc' = "returned"
    /\ f_result' = [kind |-> "html", ok |-> TRUE, status |-> f_lastStatus, url |-> f_url]
    /\ f_timer' = FALSE
    /\ UNCHANGED <<f_layer, f_url, f_attempt, f_lastError, f_requests, f_waits,
                   f_lastStatus, f_all503, f_exhausted503>>

\* fetchHtml: fetch() or response.text() rejects (connection failure).
fetchHtml_NetworkError ==
    /\ UNCHANGED notFetchVars
    /\ f_layer = "html" /\ f_pc \in {"headers", "body"}
    /\ fetch_AfterFailedAttempt(FetchHtmlError(f_url, NetworkError), FALSE)
    /\ UNCHANGED <<f_layer, f_url, f_attempt, f_requests, f_lastStatus>>

\* fetchWithTimeout: the response headers arrive; its finally clears the timer.
fetchJson_Response ==
    /\ UNCHANGED notFetchVars
    /\ f_layer = "json" /\ f_pc = "headers"
    /\ \E status \in Statuses :
         /\ f_lastStatus' = status
         /\ IF ResponseOk(status)
              THEN \* return await response.json()
                   /\ f_pc' = "body"
                   /\ f_timer' = TimerArmedDuringBody("json")
                   /\ f_all503' = FALSE
                   /\ UNCHANGED <<f_lastError, f_result, f_waits, f_exhausted503>>
              ELSE IF JsonThrowsOnStatus(status) /\ JsonCatchBreaks(HttpError(status))
                THEN \* throw, caught, break, final throw
                     /\ f_pc' = "thrown"
                     /\ f_lastError' = HttpError(status)
                     /\ f_result' = ExhaustedError(f_url, MAX_FETCH_RETRIES, HttpError(status))
                     /\ f_timer' = FALSE
                     /\ f_all503' = FALSE
                     /\ UNCHANGED <<f_waits, f_exhausted503>>
                ELSE fetch_AfterFailedAttempt(HttpError(status), status = 503)
    /\ UNCHANGED <<f_layer, f_url, f_attempt, f_requests>>

\* fetchJsonWithRetry: response.json() resolves.
fetchJson_Body ==
    /\ UNCHANGED notFetchVars
    /\ f_layer = "json" /\ f_pc = "body"
    /\ f_pc' = "returned"
    /\ f_result' = [kind |-> "json", ok |-> TRUE, status |-> f_lastStatus, url |-> f_url]
    /\ f_timer' = FALSE
    /\ UNCHANGED <<f_layer, f_url, f_attempt, f_lastError, f_requests, f_waits,
                   f_lastStatus, f_all503, f_exhausted503>>

\* fetchJsonWithRetry: fetch() rejects, or response.json() rejects (connection
\* failure, or a body that is not JSON).
fetchJson_Error ==
    /\ UNCHANGED notFetchVars
    /\ f_layer = "json"
    /\ \/ f_pc = "headers" /\ fetch_AfterFailedAttempt(NetworkError, FALSE)
       \/ f_pc = "body" /\ \E e \in {NetworkError, ParseError} :
                              fetch_AfterFailedAttempt(e, FALSE)
    /\ UNCHANGED <<f_layer, f_url, f_attempt, f_requests, f_lastStatus>>

\* The REQUEST_TIMEOUT_MS timer fires: controller.abort() rejects the pending
\* fetch() or body read.
fetch_TimerFires ==
    /\ UNCHANGED notFetchVars
    /\ f_timer /\ f_pc \in {"headers", "body"}
    /\ IF f_layer = "html"
         THEN fetch_AfterFailedAttempt(FetchHtmlError(f_url, AbortError), FALSE)
         ELSE fetch_AfterFailedAttempt(AbortError, FALSE)
    /\ UNCHANGED <<f_layer, f_url, f_attempt, f_requests, f_lastStatus>>

\* await sleep(delay) resolves.
fetch_SleepDone ==
    /\ UNCHANGED notFetchVars
    /\ f_pc = "sleep"
    /\ f_pc' = "loopTop"
    /\ UNCHANGED <<f_layer, f_url, f_attempt, f_lastError, f_timer, f_result,
                   f_requests, f_waits, f_lastStatus, f_all503, f_exhausted503>>

FetchIdle ==
    /\ f_layer = "none"
    /\ f_url = "u1"
    /\ f_pc = "idle"
    /\ f_attempt = 0
    /\ f_lastError = NoError
    /\ f_timer = FALSE
    /\ f_result = NoResult
    /\ f_requests = 0
    /\ f_waits = <<>>
    /\ f_lastStatus = 0
    /\ f_all503 = TRUE
    /\ f_exhausted503 = {}

FetchNext ==
    \/ fetch_Call
    \/ fetch_BeginAttempt
    \/ fetchHtml_Response
    \/ fetchHtml_Body
    \/ fetchHtml_NetworkError
    \/ fetchJson_Response
    \/ fetchJson_Body
    \/ fetchJson_Error
    \/ fetch_TimerFires
    \/ fetch_SleepDone

MirrorIdle ==
    /\ d_state = [present |-> FALSE, generatedAt |-> 0, artifacts |-> <<>>]
    /\ d_manifest = [present |-> FALSE, generatedAt |-> 0, stats |-> <<>>, artifacts |-> <<>>]
    /\ d_files = <<>>
    /\ m_pc = "idle"
    /\ m_prior = <<>>
    /\ m_next = <<>>
    /\ m_stats = <<>>
    /\ m_queue = <<>>
    /\ m_template = <<>>
    /\ m_artifacts = <<>>
    /\ h_run = 0
    /\ h_outcome = <<>>
    /\ h_requests = <<>>
    /\ h_filesAtStart = {}
    /\ h_prevOk = FALSE
    /\ h_clean = FALSE
    /\ h_start = <<>>

NoIndex == [present |-> FALSE, generatedAt |-> 0, libraries |-> <<>>]

\* No sync run has started.
SyncIdle ==
    /\ s_pc = "idle"
    /\ s_page = 1
    /\ s_seenIds = {}
    /\ s_discoveredIds = <<>>
    /\ s_uniqueIds = <<>>
    /\ s_queue = <<>>
    /\ s_libraries = <<>>
    /\ s_skippedIds = <<>>
    /\ s_tmp = NoIndex
    /\ s_overlay = <<>>
    /\ s_pagesFetched = 0
    /\ s_lastPage = [kind |-> "none", ids |-> <<>>, fresh |-> {}, page |-> 0, tried |-> <<>>]
    /\ s_detail = <<>>
    /\ s_failure = "none"
    /\ s_indexBefore = NoIndex

\* normalizeLibraryRecord has not been called.
NormIdle ==
    /\ n_pc = "idle"
    /\ n_base = <<>>
    /\ n_entry = <<>>
    /\ n_merged = <<>>
    /\ n_out = <<>>
    /\ n_first = <<>>
    /\ n_second = <<>>

\* normalizeId has not been called.
IdIdle ==
    /\ i_pc = "idle"
    /\ i_input = <<>>
    /\ i_out = <<>>
    /\ i_again = <<>>

\* index/overlay.json does not exist
NoOverlay == [present |-> FALSE, parses |-> FALSE, value |-> [t |-> "undefined", v |-> <<>>]]

FetchInit ==
    /\ FetchIdle /\ MirrorIdle /\ SyncIdle /\ NormIdle /\ IdIdle
    /\ d_index = NoIndex /\ d_overlay = NoOverlay

SpecFetch == FetchInit /\ [][FetchNext]_vars

\* ------------------------------------------------------------------------
\* Strings.  A string the code takes apart is a sequence of one-character
\* strings; a value that is not a string (null, undefined) is Null.
\* ------------------------------------------------------------------------
Null == <<"<null>">>

LowerLetters ==
    <<"a","b","c","d","e","f","g","h","i","j","k","l","m",
      "n","o","p","q","r","s","t","u","v","w","x","y","z">>

UpperLetters ==
    <<"A","B","C","D","E","F","G","H","I","J","K","L","M",
      "N","O","P","Q","R","S","T","U","V","W","X","Y","Z">>

Digits == <<"0","1","2","3","4","5","6","7","8","9">>

Range(s) == {s[i] : i \in DOMAIN s}

\* The character class [a-z0-9._-] under the i flag
IdChars == Range(LowerLetters) \cup Range(UpperLetters) \cup Range(Digits) \cup {".", "_", "-"}

\* \s of String.prototype.trim, as far as the model's inputs hold
Whitespace == {" ", "\t", "\n"}

\* String.prototype.toLowerCase on one character
LowerOf(c) ==
    IF c \in Range(UpperLetters)
      THEN LowerLetters[CHOOSE i \in DOMAIN UpperLetters : UpperLetters[i] = c]
      ELSE c

toLowerCase(s) == [i \in DOMAIN s |-> LowerOf(s[i])]

RECURSIVE DropLeading(_, _)
DropLeading(s, set) ==
    IF s # <<>> /\ Head(s) \in set THEN DropLeading(Tail(s), set) ELSE s

RECURSIVE DropTrailing(_, _)
DropTrailing(s, set) ==
    IF s # <<>> /\ s[Len(s)] \in set THEN DropTrailing(SubSeq(s, 1, Len(s) - 1), set) ELSE s

\* String.prototype.trim
trim(s) == DropTrailing(DropLeading(s, Whitespace), Whitespace)

\* value.replace(/^\/+|\/+$/g, '')
StripSlashes(s) == DropTrailing(DropLeading(s, {"/"}), {"/"})

\* /^[a-z0-9._-]+\/[a-z0-9._-]+$/i.test(s)
MatchesIdPattern(s) ==
    \E k \in DOMAIN s :
        /\ s[k] = "/"
        /\ k > 1 /\ k < Len(s)
        /\ \A i \in DOMAIN s : i # k => s[i] \in IdChars

\* Mutant: the identifier keeps its case.
normalizeId_KeepsCase(value) ==
    IF value = Null THEN Null
    ELSE LET cleaned == StripSlashes(trim(value))
         IN  IF MatchesIdPattern(cleaned) THEN cleaned ELSE Null

\* normalizeId(value): null for a non-string or a string that does not match
normalizeId(value) ==
    IF value = Null THEN Null
    ELSE LET cleaned == StripSlashes(trim(value))
         IN  IF MatchesIdPattern(cleaned) THEN toLowerCase(cleaned) ELSE Null

\* toNonEmptyString(value)
toNonEmptyString(value) ==
    IF value # Null /\ trim(value) # <<>> THEN trim(value) ELSE Null

\* [...new Set(list)]: the first occurrence of each element, in order
RECURSIVE Dedupe(_)
Dedupe(list) ==
    IF list = <<>> THEN <<>>
    ELSE LET init == Dedupe(SubSeq(list, 1, Len(list) - 1))
             last == list[Len(list)]
         IN  IF last \in Range(init) THEN init ELSE Append(init, last)

\* uniqStrings(values)
uniqStrings(values) ==
    LET strings == SelectSeq(values, LAMBDA x : x # Null /\ trim(x) # <<>>)
    IN  Dedupe([i \in DOMAIN strings |-> trim(strings[i])])

LATEST == <<"l","a","t","e","s","t">>

\* prependVIfNeeded(version)
prependVIfNeeded(version) ==
    LET value == toNonEmptyString(version)
    IN  IF value = Null THEN Null
        ELSE IF value = LATEST THEN value
        ELSE IF Head(value) = "v" THEN value ELSE <<"v">> \o value

\* parseId(id): { id, owner, libname } or null
parseId(id) ==
    LET normalized == normalizeId(id)
    IN  IF normalized = Null THEN Null
        ELSE LET k == CHOOSE i \in DOMAIN normalized : normalized[i] = "/"
             IN  [id |-> normalized,
                  owner |-> SubSeq(normalized, 1, k - 1),
                  libname |-> SubSeq(normalized, k + 1, Len(normalized))]

\* The order of a.localeCompare(b) on the model's characters: punctuation, then
\* digits, then letters.
CollationOrder == <<"_", "-", ".", "/", "@">> \o Digits \o LowerLetters

CharRank(c) == CHOOSE i \in DOMAIN CollationOrder : CollationOrder[i] = LowerOf(c)

\* a.localeCompare(b): -1, 0 or 1
RECURSIVE localeCompare(_, _)
localeCompare(a, b) ==
    IF a = <<>> /\ b = <<>> THEN 0
    ELSE IF a = <<>> THEN -1
    ELSE IF b = <<>> THEN 1
    ELSE IF CharRank(Head(a)) < CharRank(Head(b)) THEN -1
    ELSE IF CharRank(Head(a)) > CharRank(Head(b)) THEN 1
    ELSE localeCompare(Tail(a), Tail(b))

\* ------------------------------------------------------------------------
\* Paths (path.posix.join, path.resolve).  A path is the sequence of its
\* components; the string is the components joined by "/".
\* ------------------------------------------------------------------------
RECURSIVE SplitOn(_, _)
SplitOn(s, sep) ==
    IF \A i \in DOMAIN s : s[i] # sep THEN <<s>>
    ELSE LET k == CHOOSE i \in DOMAIN s : s[i] = sep /\ \A j \in 1..(i - 1) : s[j] # sep
         IN  <<SubSeq(s, 1, k - 1)>> \o SplitOn(SubSeq(s, k + 1, Len(s)), sep)

RECURSIVE ComponentsOf(_)
ComponentsOf(segments) ==
    IF segments = <<>> THEN <<>>
    ELSE SplitOn(Head(segments), "/") \o ComponentsOf(Tail(segments))

\* Normalisation of a component list: "" and "." vanish, ".." removes the
\* component before it; at the start of a relative path ".." stays, at the root
\* of an absolute path it vanishes.
RECURSIVE NormalizeComponents(_, _, _)
NormalizeComponents(done, rest, absolute) ==
    IF rest = <<>> THEN done
    ELSE LET c == Head(rest)
         IN  IF c = <<>> \/ c = <<".">>
               THEN NormalizeComponents(done, Tail(rest), absolute)
             ELSE IF c = <<".", ".">>
               THEN IF done # <<>> /\ done[Len(done)] # <<".", ".">>
                      THEN NormalizeComponents(SubSeq(done, 1, Len(done) - 1), Tail(rest), absolute)
                    ELSE IF absolute
                      THEN NormalizeComponents(done, Tail(rest), absolute)
                    ELSE NormalizeComponents(Append(done, c), Tail(rest), absolute)
             ELSE NormalizeComponents(Append(done, c), Tail(rest), absolute)

\* path.posix.join(...segments) of relative segments
PosixJoin(segments) == NormalizeComponents(<<>>, ComponentsOf(segments), FALSE)

\* path.resolve(base, ...segments) for an absolute, normalised base
PathResolve(base, segments) == NormalizeComponents(base, ComponentsOf(segments), TRUE)

\* path.resolve(__dirname, '..'): the repository's directory
REPO_DIR == << <<"r","e","p","o">> >>

MIRROR == <<"m","i","r","r","o","r">>

LIBS == <<"l","i","b","s">>

\* MIRROR_LIBS_DIR
MIRROR_LIBS_DIR == PathResolve(REPO_DIR, <<MIRROR, LIBS>>)

\* `${version}.xodball.json`
XodballFileName(version) == version \o <<".","x","o","d","b","a","l","l",".","j","s","o","n">>

\* relativePath of a candidate
RelativePath(parsed, version) ==
    PosixJoin(<<MIRROR, LIBS, parsed.owner, parsed.libname, XodballFileName(version)>>)

\* absolutePath of a candidate
AbsolutePath(parsed, version) ==
    PathResolve(MIRROR_LIBS_DIR, <<parsed.owner, parsed.libname, XodballFileName(version)>>)

\* The file a state entry's recorded (repository-relative) path names
RecordedFile(entry) == PathResolve(REPO_DIR, entry.path)

\* `${parsed.id}@${version}`
ArtifactKey(id, version) == id \o <<"@">> \o version

\* ------------------------------------------------------------------------
\* Service description and endpoint instantiation
\* ------------------------------------------------------------------------
\* A path template is a sequence of parts: text, or a {key} placeholder.
Text(s) == [kind |-> "text", value |-> s]

Placeholder(key) == [kind |-> "placeholder", key |-> key]

\* `aliases` of buildPathFromTemplate
TemplateAliases ==
    [orgname |-> <<"orgname", "owner", "org">>,
     libname |-> <<"libname", "library", "name">>,
     semver_or_latest |-> <<"semver_or_latest", "version", "semverOrLatest">>]

\* encodeURIComponent: the unreserved characters of the model stay, any other
\* character c becomes its escape, written <<"%", c>> here
UriUnreserved == IdChars \cup {"!", "~", "*", "'", "(", ")"}

RECURSIVE encodeURIComponent(_)
encodeURIComponent(s) ==
    IF s = <<>> THEN <<>>
    ELSE (IF Head(s) \in UriUnreserved THEN <<Head(s)>> ELSE <<"%", Head(s)>>)
         \o encodeURIComponent(Tail(s))

\* The replacer of buildPathFromTemplate for one {key}: the parameter name it
\* resolves to, or "" when `choices.find` finds none (and the function throws)
TemplateChoice(key, params) ==
    LET choices == IF key \in DOMAIN TemplateAliases THEN TemplateAliases[key] ELSE <<key>>
        found == SelectSeq(choices, LAMBDA choice : choice \in DOMAIN params)
    IN  IF found = <<>> THEN "" ELSE Head(found)

\* buildPathFromTemplate(pathTemplate, params): [ok, path]; ok = FALSE is the
\* `Missing path parameter` throw
buildPathFromTemplate(pathTemplate, params) ==
    LET keys == {pathTemplate[i].key : i \in {j \in DOMAIN pathTemplate : pathTemplate[j].kind = "placeholder"}}
    IN  IF \E key \in keys : TemplateChoice(key, params) = ""
          THEN [ok |-> FALSE, path |-> <<>>]
          ELSE [ok |-> TRUE,
                path |-> [i \in DOMAIN pathTemplate |->
                            IF pathTemplate[i].kind = "placeholder"
                              THEN Text(encodeURIComponent(params[TemplateChoice(pathTemplate[i].key, params)]))
                              ELSE pathTemplate[i]]]

\* What a GET of one service-description location yields in the model: no
\* usable answer (fetchJsonWithRetry throws), or a JSON document.
SwaggerUnreachable == [kind |-> "unreachable"]

\* a document whose paths hold the artifact operation
SwaggerWithOperation ==
    [kind |-> "doc", hasPaths |-> TRUE,
     paths |-> << [template |-> <<Text("/orgs/"), Placeholder("orgname")>>,
                   operationId |-> "getOrg"],
                  [template |-> <<Text("/orgs/"), Placeholder("orgname"), Text("/libs/"),
                                  Placeholder("libname"), Text("/versions/"),
                                  Placeholder("semver_or_latest"), Text("/xodball")>>,
                   operationId |-> "getLibVersionXodball"] >>]

\* the same operation, its parameters spelled owner, library, version
SwaggerSecondSpelling ==
    [kind |-> "doc", hasPaths |-> TRUE,
     paths |-> << [template |-> <<Text("/orgs/"), Placeholder("owner"), Text("/libs/"),
                                  Placeholder("library"), Text("/versions/"),
                                  Placeholder("version"), Text("/xodball")>>,
                   operationId |-> "getLibVersionXodball"] >>]

\* the same operation, its parameters spelled org, name, semverOrLatest
SwaggerThirdSpelling ==
    [kind |-> "doc", hasPaths |-> TRUE,
     paths |-> << [template |-> <<Text("/orgs/"), Placeholder("org"), Text("/libs/"),
                                  Placeholder("name"), Text("/versions/"),
                                  Placeholder("semverOrLatest"), Text("/xodball")>>,
                   operationId |-> "getLibVersionXodball"] >>]

\* a document without that operation
SwaggerWithoutOperation ==
    [kind |-> "doc", hasPaths |-> TRUE,
     paths |-> << [template |-> <<Text("/orgs/"), Placeholder("orgname")>>,
                   operationId |-> "getOrg"] >>]

\* a JSON value with no `paths`
SwaggerWithoutPaths == [kind |-> "doc", hasPaths |-> FALSE, paths |-> <<>>]

SwaggerAnswers ==
    {SwaggerUnreachable, SwaggerWithOperation, SwaggerSecondSpelling, SwaggerThirdSpelling,
     SwaggerWithoutOperation, SwaggerWithoutPaths}

\* fetchSwaggerSpec: the first candidate location that answers; `answers` holds
\* what the two locations yield
fetchSwaggerSpec(answers) ==
    LET got == SelectSeq(answers, LAMBDA a : a.kind = "doc")
    IN  IF got = <<>> THEN SwaggerUnreachable ELSE Head(got)

\* Mutant: the first path of the document is taken, whatever its operation.
resolveOperationPath_FirstPath(swaggerSpec, operationId) ==
    IF ~swaggerSpec.hasPaths THEN [ok |-> FALSE, pathTemplate |-> <<>>]
    ELSE [ok |-> TRUE, pathTemplate |-> Head(swaggerSpec.paths).template]

\* resolveOperationPath(swaggerSpec, operationId): [ok, pathTemplate]; ok = FALSE
\* is either throw
resolveOperationPath(swaggerSpec, operationId) ==
    IF ~swaggerSpec.hasPaths THEN [ok |-> FALSE, pathTemplate |-> <<>>]
    ELSE LET hits == SelectSeq(swaggerSpec.paths, LAMBDA p : p.operationId = operationId)
         IN  IF hits = <<>> THEN [ok |-> FALSE, pathTemplate |-> <<>>]
             ELSE [ok |-> TRUE, pathTemplate |-> Head(hits).template]

\* ------------------------------------------------------------------------
\* Mirror: the catalog documents of the model
\* ------------------------------------------------------------------------
ID_AX == <<"a", "/", "x">>

ID_BY == <<"b", "/", "y">>

\* a library record of index.json, as far as the mirror reads it; versions = Null
\* is a `versions` that is not an array
Lib(id, versions, latest) == [id |-> id, versions |-> versions, latest |-> latest]

Index(generatedAt, libraries) ==
    [present |-> TRUE, generatedAt |-> generatedAt, libraries |-> libraries]

\* b/y before a/x (the mirror sorts), a version without the leading v
IndexTwoLibs ==
    Index(1, << Lib(ID_BY, <<LATEST>>, LATEST), Lib(ID_AX, <<<<"1">>>>, <<"1">>) >>)

\* a/x alone, its one version spelled twice: "v1" and "1"
IndexOneLib == Index(2, << Lib(ID_AX, <<<<"v", "1">>, <<"1">>>>, <<"1">>) >>)

\* a/x gone; b/y with no versions array; one record whose id is not an id
IndexLegacy ==
    Index(3, << Lib(<<"b", "a", "d">>, <<<<"1">>>>, <<"1">>), Lib(ID_BY, Null, <<"2">>) >>)

\* one library whose owner and library segments are made only of dots
ID_DOTS == <<".", ".", "/", ".", ".">>

IndexDots == Index(4, << Lib(ID_DOTS, <<<<"1">>>>, <<"1">>) >>)

Indexes == {NoIndex, IndexTwoLibs, IndexOneLib, IndexLegacy, IndexDots}

\* The payloads the artifact endpoint serves
Contents == {"xodball-1", "xodball-2"}

\* fs.writeFile cut short: what is left on disk
Truncated == "truncated"

\* crypto.createHash('sha256').update(content).digest('hex')
Sha256(content) == <<"sha256", content>>

EmptyMap == <<>>

\* obj[key] = value on a map
Put(map, key, value) ==
    [k \in DOMAIN map \cup {key} |-> IF k = key THEN value ELSE map[k]]

\* a map without one key
Without(map, key) == [k \in DOMAIN map \ {key} |-> map[k]]

\* ------------------------------------------------------------------------
\* Mirror: run() of mirror-xodio.js
\* ------------------------------------------------------------------------
\* `!indexData || !Array.isArray(indexData.libraries)`
InvalidIndex(indexData) == ~indexData.present

\* readJson(MIRROR_STATE_PATH, { artifacts: {} }).artifacts
PriorArtifacts(stateData) == IF stateData.present THEN stateData.artifacts ELSE EmptyMap

\* Mutant: the run starts from an empty map instead of the prior state.
InitialNextArtifacts_Empty(priorArtifacts) == EmptyMap

\* `const nextArtifacts = { ...priorArtifacts }`
InitialNextArtifacts(priorArtifacts) == priorArtifacts

\* sortedLibraries: the libraries with a valid id, sorted by id
SortedLibraries(indexData) ==
    SortSeq(SelectSeq(indexData.libraries, LAMBDA lib : normalizeId(lib.id) # Null),
            LAMBDA a, b : localeCompare(a.id, b.id) < 0)

\* `versions` of one library: uniqStrings(list.map(prependVIfNeeded).filter(Boolean))
LibVersions(lib) ==
    LET list == IF lib.versions # Null THEN lib.versions ELSE <<lib.latest>>
        mapped == [i \in DOMAIN list |-> prependVIfNeeded(list[i])]
    IN  uniqStrings(SelectSeq(mapped, LAMBDA v : v # Null))

\* The candidates in the order the two for loops reach them
RECURSIVE CandidatesOf(_)
CandidatesOf(libraries) ==
    IF libraries = <<>> THEN <<>>
    ELSE LET parsed == parseId(Head(libraries).id)
             versions == LibVersions(Head(libraries))
         IN  (IF normalizeId(Head(libraries).id) = Null THEN <<>>   \* `if (!parsed) continue;`
              ELSE [i \in DOMAIN versions |-> [parsed |-> parsed, version |-> versions[i]]])
             \o CandidatesOf(Tail(libraries))

CandidateKeys(indexData) ==
    LET cs == CandidatesOf(SortedLibraries(indexData))
    IN  {ArtifactKey(cs[i].parsed.id, cs[i].version) : i \in DOMAIN cs}

\* Mutant: no candidate is ever skipped.
SkipsExisting_Never(nextArtifacts, files, key, relativePath, absolutePath) == FALSE

\* `existing && existing.path === relativePath` and fs.access(absolutePath) succeeds
SkipsExisting(nextArtifacts, files, key, relativePath, absolutePath) ==
    /\ key \in DOMAIN nextArtifacts
    /\ nextArtifacts[key].path = relativePath
    /\ absolutePath \in files

\* The entry written to nextArtifacts[key] after a download
NewEntry(parsed, version, sourceUrl, relativePath, content, now) ==
    [id |-> parsed.id,
     owner |-> parsed.owner,
     libname |-> parsed.libname,
     version |-> version,
     sourceProvider |-> "xod.io",
     sourceUrl |-> sourceUrl,
     path |-> relativePath,
     sha256 |-> Sha256(content),
     mirroredAt |-> now]

\* What the try block of one candidate can end in: the download and the write
\* succeed, fetchJsonWithRetry throws, fs.mkdir throws, or fs.writeFile throws
\* after it has created the file.
DownloadOutcomes == {"ok", "fetchFails", "mkdirFails", "writeFails"}

\* Mutant: the entry is recorded before the file is known to be written.
RecordsEntry_Always(outcome) == outcome \in {"ok", "mkdirFails", "writeFails"}

\* The assignment nextArtifacts[key] = {...} is reached only after mkdir and
\* writeFile have resolved
RecordsEntry(outcome) == outcome = "ok"

\* Mutant: a failed candidate loses its state entry.
NextAfterFailure_Drops(nextArtifacts, key) == Without(nextArtifacts, key)

\* The catch of one candidate leaves nextArtifacts alone
NextAfterFailure(nextArtifacts, key) == nextArtifacts

\* The files after the try block of one candidate
FilesAfter(files, absolutePath, outcome, content) ==
    IF outcome = "ok" THEN Put(files, absolutePath, content)
    ELSE IF outcome = "writeFails" THEN Put(files, absolutePath, Truncated)
    ELSE files

\* The filter of toArtifactsFromState: `entry && entry.id && entry.version`
KeepsEntry(entry) == entry.id # <<>> /\ entry.version # <<>>

\* The comparator of toArtifactsFromState: by id, then by version
ArtifactBefore(a, b) ==
    LET byId == localeCompare(a.id, b.id)
    IN  IF byId # 0 THEN byId < 0 ELSE localeCompare(a.version, b.version) < 0

RECURSIVE SortArtifacts(_)
SortArtifacts(entries) ==
    IF entries = {} THEN <<>>
    ELSE LET first == CHOOSE e \in entries : \A o \in entries \ {e} : ~ArtifactBefore(o, e)
         IN  <<first>> \o SortArtifacts(entries \ {first})

\* Mutant: the view in descending order.
toArtifactsFromState_Descending(state) ==
    LET sorted == SortArtifacts({state[k] : k \in {j \in DOMAIN state : KeepsEntry(state[j])}})
    IN  [i \in 1..Len(sorted) |-> sorted[Len(sorted) + 1 - i]]

\* toArtifactsFromState(state)
toArtifactsFromState(state) ==
    SortArtifacts({state[k] : k \in {j \in DOMAIN state : KeepsEntry(state[j])}})

\* artifacts.reduce((acc, item) => { acc[`${item.id}@${item.version}`] = item; ... }, {})
RECURSIVE KeyedArtifacts(_)
KeyedArtifacts(artifacts) ==
    IF artifacts = <<>> THEN EmptyMap
    ELSE LET item == artifacts[Len(artifacts)]
         IN  Put(KeyedArtifacts(SubSeq(artifacts, 1, Len(artifacts) - 1)),
                 ArtifactKey(item.id, item.version), item)

ZeroStats == [totalCandidates |-> 0, downloaded |-> 0, skippedExisting |-> 0, failed |-> 0]

\* Mutant: a candidate that is skipped is not counted as a candidate.
Counted_SkippedUncounted(stats, outcome) ==
    IF outcome = "skippedExisting" THEN [stats EXCEPT ![outcome] = @ + 1]
    ELSE [stats EXCEPT !.totalCandidates = @ + 1, ![outcome] = @ + 1]

\* `stats.totalCandidates += 1` at the head of the iteration, and the one of
\* `stats.skippedExisting += 1`, `stats.downloaded += 1`, `stats.failed += 1`
\* the iteration ends in
Counted(stats, outcome) ==
    [stats EXCEPT !.totalCandidates = @ + 1, ![outcome] = @ + 1]

\* The number of mirror runs a behaviour holds
MaxRuns == 2

\* run(), from its start to the first candidate: read index.json and state.json,
\* fetch the service description, resolve the operation, set up the loop.
mirror_Start ==
    /\ UNCHANGED notMirrorVars
    /\ m_pc \in {"idle", "done", "aborted", "interrupted"}
    /\ h_run < MaxRuns
    /\ h_run' = h_run + 1
    /\ h_outcome' = EmptyMap
    /\ h_requests' = EmptyMap
    /\ h_filesAtStart' = DOMAIN d_files
    /\ h_clean' = h_prevOk
    /\ h_prevOk' = FALSE
    /\ m_prior' = PriorArtifacts(d_state)
    /\ m_stats' = ZeroStats
    /\ m_artifacts' = <<>>
    /\ UNCHANGED diskVars
    /\ \E first \in SwaggerAnswers, second \in SwaggerAnswers :
         LET swaggerSpec == fetchSwaggerSpec(<<first, second>>)
             resolved == IF swaggerSpec.kind = "doc"
                           THEN resolveOperationPath(swaggerSpec, "getLibVersionXodball")
                           ELSE [ok |-> FALSE, pathTemplate |-> <<>>]
         IN  /\ h_start' = [swagger |-> IF InvalidIndex(d_index) THEN [kind |-> "notFetched"]
                                         ELSE swaggerSpec,
                             state |-> d_state, manifest |-> d_manifest, files |-> d_files]
             /\ IF InvalidIndex(d_index) \/ ~resolved.ok
                  THEN /\ m_pc' = "aborted"
                       /\ m_next' = EmptyMap
                       /\ m_queue' = <<>>
                       /\ m_template' = <<>>
                  ELSE /\ m_pc' = "loop"
                       /\ m_next' = InitialNextArtifacts(PriorArtifacts(d_state))
                       /\ m_queue' = CandidatesOf(SortedLibraries(d_index))
                       /\ m_template' = resolved.pathTemplate

\* One iteration of the inner loop: one (library, version) candidate.
mirror_Candidate ==
    /\ UNCHANGED notMirrorVars
    /\ m_pc = "loop" /\ m_queue # <<>>
    /\ LET parsed == Head(m_queue).parsed
           version == Head(m_queue).version
           key == ArtifactKey(parsed.id, version)
           relativePath == RelativePath(parsed, version)
           absolutePath == AbsolutePath(parsed, version)
           built == buildPathFromTemplate(m_template,
                        [orgname |-> parsed.owner, libname |-> parsed.libname,
                         semver_or_latest |-> version])
           calls == IF key \in DOMAIN h_requests THEN h_requests[key] ELSE 0
       IN  /\ m_queue' = Tail(m_queue)
           /\ IF SkipsExisting(m_next, DOMAIN d_files, key, relativePath, absolutePath)
                THEN /\ m_stats' = Counted(m_stats, "skippedExisting")
                     /\ h_outcome' = Put(h_outcome, key, "skipped")
                     /\ h_requests' = Put(h_requests, key, calls)
                     /\ UNCHANGED <<m_next, d_files>>
              ELSE IF ~built.ok
                THEN /\ m_stats' = Counted(m_stats, "failed")
                     /\ m_next' = NextAfterFailure(m_next, key)
                     /\ h_outcome' = Put(h_outcome, key, "failed")
                     /\ h_requests' = Put(h_requests, key, calls)
                     /\ UNCHANGED d_files
              ELSE \E outcome \in DownloadOutcomes, content \in Contents :
                     /\ h_requests' = Put(h_requests, key, calls + 1)
                     /\ d_files' = FilesAfter(d_files, absolutePath, outcome, content)
                     /\ m_next' = IF RecordsEntry(outcome)
                                    THEN Put(m_next, key,
                                             NewEntry(parsed, version, built.path,
                                                      relativePath, content, h_run))
                                    ELSE NextAfterFailure(m_next, key)
                     /\ IF outcome = "ok"
                          THEN /\ m_stats' = Counted(m_stats, "downloaded")
                               /\ h_outcome' = Put(h_outcome, key, "downloaded")
                          ELSE /\ m_stats' = Counted(m_stats, "failed")
                               /\ h_outcome' = Put(h_outcome, key, "failed")
    /\ UNCHANGED <<m_pc, m_prior, m_template, m_artifacts>>
    /\ UNCHANGED <<d_index, d_state, d_manifest>>
    /\ UNCHANGED <<h_run, h_filesAtStart, h_prevOk, h_clean, h_start>>

\* After the loops: derive the sorted view and writeJson(MIRROR_INDEX_PATH, ...).
mirror_WriteIndex ==
    /\ UNCHANGED notMirrorVars
    /\ m_pc = "loop" /\ m_queue = <<>>
    /\ LET artifacts == toArtifactsFromState(m_next)
       IN  /\ m_artifacts' = artifacts
           /\ d_manifest' = [present |-> TRUE,
                             generatedAt |-> h_run,
                             stats |-> [totalCandidates |-> m_stats.totalCandidates,
                                        downloaded |-> m_stats.downloaded,
                                        skippedExisting |-> m_stats.skippedExisting,
                                        failed |-> m_stats.failed,
                                        totalMirroredArtifacts |-> Len(artifacts)],
                             artifacts |-> artifacts]
    /\ m_pc' = "writeState"
    /\ UNCHANGED <<m_prior, m_next, m_stats, m_queue, m_template>>
    /\ UNCHANGED <<d_index, d_state, d_files>>
    /\ UNCHANGED historyVars

\* writeJson(MIRROR_STATE_PATH, mirrorState); run() returns.
mirror_WriteState ==
    /\ UNCHANGED notMirrorVars
    /\ m_pc = "writeState"
    /\ d_state' = [present |-> TRUE,
                   generatedAt |-> d_manifest.generatedAt,
                   artifacts |-> KeyedArtifacts(m_artifacts)]
    /\ m_pc' = "done"
    /\ h_prevOk' = (m_stats.failed = 0)
    /\ UNCHANGED <<m_prior, m_next, m_stats, m_queue, m_template, m_artifacts>>
    /\ UNCHANGED <<d_index, d_manifest, d_files>>
    /\ UNCHANGED <<h_run, h_outcome, h_requests, h_filesAtStart, h_clean, h_start>>

\* The run ends between its two final writes: writeJson(MIRROR_STATE_PATH, ...)
\* rejects before its rename (fs.writeFile of state.json.tmp fails, or the process
\* is stopped) and run().catch exits.  state.json is the file the run found.
mirror_WriteStateFails ==
    /\ UNCHANGED notMirrorVars
    /\ m_pc = "writeState"
    /\ m_pc' = "interrupted"
    /\ UNCHANGED <<m_prior, m_next, m_stats, m_queue, m_template, m_artifacts>>
    /\ UNCHANGED diskVars
    /\ UNCHANGED historyVars

\* Between two runs (no run() is executing), a mirrored file is deleted from
\* outside.
env_DeleteFile ==
    /\ UNCHANGED notMirrorVars
    /\ m_pc \in {"idle", "done", "aborted", "interrupted"} /\ h_run < MaxRuns
    /\ \E path \in DOMAIN d_files : d_files' = Without(d_files, path)
    /\ h_prevOk' = FALSE
    /\ m_pc' = "idle"
    /\ UNCHANGED <<d_index, d_state, d_manifest>>
    /\ UNCHANGED <<m_prior, m_next, m_stats, m_queue, m_template, m_artifacts>>
    /\ UNCHANGED <<h_run, h_outcome, h_requests, h_filesAtStart, h_clean, h_start>>

\* Between two runs (no run() is executing), the sync job publishes another
\* catalog.
env_PublishIndex ==
    /\ UNCHANGED notMirrorVars
    /\ m_pc \in {"idle", "done", "aborted", "interrupted"} /\ h_run < MaxRuns
    /\ \E index \in Indexes \ {d_index} : d_index' = index
    /\ h_prevOk' = FALSE
    /\ m_pc' = "idle"
    /\ UNCHANGED <<d_state, d_manifest, d_files>>
    /\ UNCHANGED <<m_prior, m_next, m_stats, m_queue, m_template, m_artifacts>>
    /\ UNCHANGED <<h_run, h_outcome, h_requests, h_filesAtStart, h_clean, h_start>>

MirrorInit ==
    /\ FetchIdle /\ MirrorIdle /\ SyncIdle /\ NormIdle /\ IdIdle
    /\ d_index \in Indexes /\ d_overlay = NoOverlay

MirrorNext ==
    \/ mirror_Start
    \/ mirror_Candidate
    \/ mirror_WriteIndex
    \/ mirror_WriteState
    \/ mirror_WriteStateFails
    \/ env_DeleteFile
    \/ env_PublishIndex

SpecMirror == MirrorInit /\ [][MirrorNext]_vars

\* ------------------------------------------------------------------------
\* JSON values (the overlay document, the discovered record, the merged
\* record).  An object is the sequence of its [k, v] members in key order.
\* ------------------------------------------------------------------------
JUndefined == [t |-> "undefined", v |-> <<>>]

JNull == [t |-> "null", v |-> <<>>]

JBool(b) == [t |-> "boolean", v |-> b]

JNum(n) == [t |-> "number", v |-> n]

JStr(s) == [t |-> "string", v |-> s]

JArr(items) == [t |-> "array", v |-> items]

JObj(members) == [t |-> "object", v |-> members]

\* One member of an object; the key is a string like any other
Member(key, value) == [k |-> key, v |-> value]

\* A member whose key is a field name of the program, kept whole
Field(name, value) == Member(<<name>>, value)

EmptyObject == JObj(<<>>)

\* `x && typeof x === "object" && !Array.isArray(x)`
IsPlainObject(x) == x.t = "object"

\* The truthiness of a value
Truthy(x) ==
    CASE x.t \in {"undefined", "null"} -> FALSE
      [] x.t = "boolean" -> x.v
      [] x.t = "number" -> x.v # 0
      [] x.t = "string" -> x.v # <<>>
      [] OTHER -> TRUE

\* The property names "0", "1", ... of an array or a string
IndexKeys == << <<"0">>, <<"1">>, <<"2">>, <<"3">> >>

\* The own enumerable members Object.keys(x) walks: those of an object, the
\* indexed elements of an array or of a string, none for the other values
MembersOf(x) ==
    CASE x.t = "object" -> x.v
      [] x.t = "array" -> [i \in DOMAIN x.v |-> Member(IndexKeys[i], x.v[i])]
      [] x.t = "string" -> [i \in DOMAIN x.v |-> Member(IndexKeys[i], JStr(<<x.v[i]>>))]
      [] OTHER -> <<>>

HasKey(members, key) == \E i \in DOMAIN members : members[i].k = key

\* obj[key], undefined when there is no such member
Get(x, key) ==
    IF x.t = "object" /\ HasKey(x.v, key)
      THEN x.v[CHOOSE i \in DOMAIN x.v : x.v[i].k = key].v
      ELSE JUndefined

\* obj.name for a field name of the program
GetField(x, name) == Get(x, <<name>>)

\* out[key] = value: an existing member keeps its place, a new one goes last
SetMember(members, key, value) ==
    IF HasKey(members, key)
      THEN [i \in DOMAIN members |->
              IF members[i].k = key THEN Member(key, value) ELSE members[i]]
      ELSE Append(members, Member(key, value))

\* The string of a value, Null for a value that is not a string
StringOf(x) == IF x.t = "string" THEN x.v ELSE Null

\* toNonEmptyString applied to a JSON value
NonEmptyStringOf(x) == toNonEmptyString(StringOf(x))

\* ------------------------------------------------------------------------
\* Merge and normalisation (sync-xodio.js)
\* ------------------------------------------------------------------------
\* deepMerge(base, overlay): the members of the result
RECURSIVE MergeMembers(_, _)
MergeMembers(out, overlayMembers) ==
    IF overlayMembers = <<>> THEN out
    ELSE LET key == Head(overlayMembers).k
             overlayValue == Head(overlayMembers).v
             baseValue == Get(JObj(out), key)
             merged == IF IsPlainObject(baseValue) /\ IsPlainObject(overlayValue)
                         THEN JObj(MergeMembers(baseValue.v, overlayValue.v))
                         ELSE overlayValue
         IN  MergeMembers(SetMember(out, key, merged), Tail(overlayMembers))

\* Mutant: the discovered values win over the overlay's.
deepMerge_BaseWins(base, overlay) ==
    JObj(MergeMembers(IF Truthy(overlay) THEN MembersOf(overlay) ELSE <<>>,
                      IF Truthy(base) THEN MembersOf(base) ELSE <<>>))

\* deepMerge(base, overlay)
deepMerge(base, overlay) ==
    JObj(MergeMembers(IF Truthy(base) THEN MembersOf(base) ELSE <<>>,
                      IF Truthy(overlay) THEN MembersOf(overlay) ELSE <<>>))

\* Insertion of one string into a list sorted by localeCompare, after its equals
RECURSIVE InsertString(_, _)
InsertString(sorted, x) ==
    IF sorted = <<>> THEN <<x>>
    ELSE IF localeCompare(Head(sorted), x) <= 0
      THEN <<Head(sorted)>> \o InsertString(Tail(sorted), x)
      ELSE <<x>> \o sorted

\* list.sort((a, b) => a.localeCompare(b)), a stable sort
RECURSIVE SortStrings(_)
SortStrings(list) ==
    IF list = <<>> THEN <<>>
    ELSE InsertString(SortStrings(SubSeq(list, 1, Len(list) - 1)), list[Len(list)])

\* normalizeStringList(value)
normalizeStringList(value) ==
    LET list == IF value.t = "array" THEN value.v
                ELSE IF value.t = "string" THEN <<value>>
                ELSE <<>>
        mapped == [i \in DOMAIN list |-> NonEmptyStringOf(list[i])]
    IN  SortStrings(uniqStrings(SelectSeq(mapped, LAMBDA s : s # Null)))

\* toBoolOrNull(value): the value if it is a boolean, else null
toBoolOrNull(value) == IF value.t = "boolean" THEN value ELSE JNull

\* The value of a decimal digit
DigitValue(c) == (CHOOSE i \in DOMAIN Digits : Digits[i] = c) - 1

\* The value of the longest prefix of digits of s, -1 if s starts with no digit
RECURSIVE DigitPrefix(_, _)
DigitPrefix(s, acc) ==
    IF s = <<>> \/ Head(s) \notin Range(Digits) THEN acc
    ELSE DigitPrefix(Tail(s), (IF acc < 0 THEN 0 ELSE acc) * 10 + DigitValue(Head(s)))

\* `Number.parseInt(n, 10) || 0`
ParseIntOrZero(s) ==
    LET unsigned == IF s # <<>> /\ Head(s) = "+" THEN Tail(s) ELSE s
        n == DigitPrefix(unsigned, -1)
    IN  IF n < 0 THEN 0 ELSE n

\* `parse` of semverCompareDesc: [core, pre = ""] = String(v).split("-"), the
\* core's parts as numbers, padded to three
ParseVersion(v) ==
    LET pieces == SplitOn(v, "-")
        coreParts == SplitOn(pieces[1], ".")
        numbers == [i \in DOMAIN coreParts |-> ParseIntOrZero(coreParts[i])]
    IN  [parts |-> [i \in 1..3 |-> IF i <= Len(numbers) THEN numbers[i] ELSE 0],
         pre |-> IF Len(pieces) >= 2 THEN pieces[2] ELSE <<>>]

\* semverCompareDesc(a, b): negative when a goes before b
semverCompareDesc(a, b) ==
    LET pa == ParseVersion(a)
        pb == ParseVersion(b)
    IN  IF pa.parts[1] # pb.parts[1] THEN pb.parts[1] - pa.parts[1]
        ELSE IF pa.parts[2] # pb.parts[2] THEN pb.parts[2] - pa.parts[2]
        ELSE IF pa.parts[3] # pb.parts[3] THEN pb.parts[3] - pa.parts[3]
        ELSE IF pa.pre = <<>> /\ pb.pre # <<>> THEN -1
        ELSE IF pa.pre # <<>> /\ pb.pre = <<>> THEN 1
        ELSE localeCompare(pa.pre, pb.pre)

\* Insertion of one version into a list sorted by semverCompareDesc, after the
\* versions that compare equal to it
RECURSIVE InsertVersion(_, _)
InsertVersion(sorted, x) ==
    IF sorted = <<>> THEN <<x>>
    ELSE IF semverCompareDesc(Head(sorted), x) <= 0
      THEN <<Head(sorted)>> \o InsertVersion(Tail(sorted), x)
      ELSE <<x>> \o sorted

\* list.sort(semverCompareDesc), a stable sort: versions that compare equal keep
\* the order they had
RECURSIVE SortVersions(_)
SortVersions(list) ==
    IF list = <<>> THEN <<>>
    ELSE InsertVersion(SortVersions(SubSeq(list, 1, Len(list) - 1)), list[Len(list)])

\* Mutant: the resolved latest is not added to the versions.
normalizeVersions_NoLatest(versions, latest) ==
    LET list == IF versions.t = "array" THEN versions.v ELSE <<>>
        mapped == [i \in DOMAIN list |-> NonEmptyStringOf(list[i])]
    IN  SortVersions(uniqStrings(SelectSeq(mapped, LAMBDA s : s # Null)))

\* normalizeVersions(versions, latest); latest is a string
normalizeVersions(versions, latest) ==
    LET list == IF versions.t = "array" THEN versions.v ELSE <<>>
        mapped == [i \in DOMAIN list |-> NonEmptyStringOf(list[i])]
        normalized == uniqStrings(SelectSeq(mapped, LAMBDA s : s # Null))
        withLatest == IF latest # <<>> /\ latest \notin Range(normalized)
                        THEN <<latest>> \o normalized
                        ELSE normalized
        sorted == SortVersions(withLatest)
    IN  IF Len(sorted) > 0 THEN sorted
        ELSE <<IF latest # <<>> THEN latest ELSE LATEST>>

WORKING == <<"w", "o", "r", "k", "i", "n", "g">>

BROKEN == <<"b", "r", "o", "k", "e", "n">>

UNTESTED == <<"u", "n", "t", "e", "s", "t", "e", "d">>

STABLE == <<"s", "t", "a", "b", "l", "e">>

EXPERIMENTAL == <<"e", "x", "p", "e", "r", "i", "m", "e", "n", "t", "a", "l">>

DEPRECATED == <<"d", "e", "p", "r", "e", "c", "a", "t", "e", "d">>

COMPATIBILITY_STATUSES == {WORKING, BROKEN, UNTESTED}

SUPPORT_STATUSES == {STABLE, EXPERIMENTAL, DEPRECATED}

\* normalizeCompatibilityStatus(status): the status, or Null
normalizeCompatibilityStatus(status) ==
    IF status.t = "string" /\ status.v \in COMPATIBILITY_STATUSES THEN status.v ELSE Null

\* normalizeSupportStatus(value): the status, or Null
normalizeSupportStatus(value) ==
    LET supportStatus == NonEmptyStringOf(value)
    IN  IF supportStatus \in SUPPORT_STATUSES THEN supportStatus ELSE Null

\* One board of the normalized boardCompatibility; notes = Null when there are none
Board(boardId, status, notes) == [board |-> boardId, status |-> status, notes |-> notes]

\* acc = { ...acc, [boardId]: entry } on a list of boards
PutBoard(boards, entry) ==
    IF \E i \in DOMAIN boards : boards[i].board = entry.board
      THEN [i \in DOMAIN boards |-> IF boards[i].board = entry.board THEN entry ELSE boards[i]]
      ELSE Append(boards, entry)

\* The reduce of normalizeBoardCompatibility over the members of its input
RECURSIVE ReduceBoards(_, _)
ReduceBoards(acc, members) ==
    IF members = <<>> THEN acc
    ELSE LET boardId == toNonEmptyString(Head(members).k)
             entry == Head(members).v
             parsed == IF IsPlainObject(entry) THEN entry ELSE EmptyObject
             status == normalizeCompatibilityStatus(GetField(parsed, "status"))
             notes == NonEmptyStringOf(GetField(parsed, "notes"))
         IN  IF boardId = Null \/ status = Null
               THEN ReduceBoards(acc, Tail(members))
               ELSE ReduceBoards(PutBoard(acc, Board(boardId, status, notes)), Tail(members))

\* Insertion of one board into a list sorted by board id
RECURSIVE InsertBoard(_, _)
InsertBoard(sorted, x) ==
    IF sorted = <<>> THEN <<x>>
    ELSE IF localeCompare(Head(sorted).board, x.board) <= 0
      THEN <<Head(sorted)>> \o InsertBoard(Tail(sorted), x)
      ELSE <<x>> \o sorted

\* sortObjectKeys(value) on a list of boards
RECURSIVE sortObjectKeys(_)
sortObjectKeys(boards) ==
    IF boards = <<>> THEN <<>>
    ELSE InsertBoard(sortObjectKeys(SubSeq(boards, 1, Len(boards) - 1)), boards[Len(boards)])

\* normalizeBoardCompatibility(rawValue): the boards in key order
normalizeBoardCompatibility(rawValue) ==
    LET input == IF IsPlainObject(rawValue) THEN rawValue ELSE EmptyObject
    IN  sortObjectKeys(ReduceBoards(<<>>, input.v))

Summary(working, broken, untested) ==
    [workingBoards |-> working, brokenBoards |-> broken, untestedBoards |-> untested]

\* The boards of one status, as the array of strings deriveCompatibilitySummary pushes
BoardsWithStatus(boardCompatibility, status) ==
    LET hits == SelectSeq(boardCompatibility, LAMBDA b : b.status = status)
    IN  JArr([i \in DOMAIN hits |-> JStr(hits[i].board)])

\* deriveCompatibilitySummary(boardCompatibility)
deriveCompatibilitySummary(boardCompatibility) ==
    Summary(normalizeStringList(BoardsWithStatus(boardCompatibility, WORKING)),
            normalizeStringList(BoardsWithStatus(boardCompatibility, BROKEN)),
            normalizeStringList(BoardsWithStatus(boardCompatibility, UNTESTED)))

\* Mutant: an explicit summary is ignored.
normalizeCompatibilitySummary_Derived(rawValue, boardCompatibility) ==
    deriveCompatibilitySummary(boardCompatibility)

\* normalizeCompatibilitySummary(rawValue, boardCompatibility)
normalizeCompatibilitySummary(rawValue, boardCompatibility) ==
    LET input == IF IsPlainObject(rawValue) THEN rawValue ELSE EmptyObject
        normalized == Summary(normalizeStringList(GetField(input, "workingBoards")),
                              normalizeStringList(GetField(input, "brokenBoards")),
                              normalizeStringList(GetField(input, "untestedBoards")))
        hasExplicitSummary == \/ Len(normalized.workingBoards) > 0
                              \/ Len(normalized.brokenBoards) > 0
                              \/ Len(normalized.untestedBoards) > 0
    IN  IF hasExplicitSummary THEN normalized
        ELSE deriveCompatibilitySummary(boardCompatibility)

\* One flag of normalizeQuality: the nested value if defined, else the legacy
\* top-level one, kept if it is a boolean
QualityFlag(quality, record, name) ==
    toBoolOrNull(IF GetField(quality, name).t # "undefined" THEN GetField(quality, name)
                 ELSE GetField(record, name))

\* { ...members, ...(flag === null ? {} : { name: flag }) }
WithFlag(members, name, flag) ==
    IF flag.t = "null" THEN members ELSE SetMember(members, <<name>>, flag)

\* normalizeQuality(record)
normalizeQuality(record) ==
    LET quality == IF IsPlainObject(GetField(record, "quality"))
                     THEN GetField(record, "quality") ELSE EmptyObject
        hasExamples == QualityFlag(quality, record, "hasExamples")
        hasReadme == QualityFlag(quality, record, "hasReadme")
        maintainerVerified == QualityFlag(quality, record, "maintainerVerified")
    IN  JObj(WithFlag(WithFlag(WithFlag(quality.v, "hasExamples", hasExamples),
                               "hasReadme", hasReadme),
                      "maintainerVerified", maintainerVerified))

XOD_LIBS_BASE_URL == "https://xod.io/libs/"

\* `${XOD_LIBS_BASE_URL}${id}/`
LibraryUrl(id) == <<XOD_LIBS_BASE_URL>> \o id \o <<"/">>

\* normalizeLibraryRecord(baseLib, overlayEntry)
normalizeLibraryRecord(baseLib, overlayEntry) ==
    LET merged == deepMerge(baseLib, overlayEntry)
        id == StringOf(GetField(baseLib, "id"))
        source == IF IsPlainObject(GetField(merged, "source")) THEN GetField(merged, "source")
                  ELSE EmptyObject
        mergedLatest == NonEmptyStringOf(GetField(merged, "latest"))
        latest == IF mergedLatest # Null THEN mergedLatest
                  ELSE IF Truthy(GetField(baseLib, "latest")) THEN StringOf(GetField(baseLib, "latest"))
                  ELSE LATEST
        boardCompatibility == normalizeBoardCompatibility(GetField(merged, "boardCompatibility"))
        provider == NonEmptyStringOf(GetField(source, "provider"))
        url == NonEmptyStringOf(GetField(source, "url"))
        summary == NonEmptyStringOf(GetField(merged, "summary"))
    IN  [id |-> id,
         source |-> [provider |-> IF provider # Null THEN provider ELSE <<"xod.io">>,
                     url |-> IF url # Null THEN url ELSE LibraryUrl(id)],
         latest |-> latest,
         versions |-> normalizeVersions(GetField(merged, "versions"), latest),
         summary |-> IF summary # Null THEN summary ELSE <<>>,
         updatedAt |-> NonEmptyStringOf(GetField(merged, "updatedAt")),
         license |-> NonEmptyStringOf(GetField(merged, "license")),
         tags |-> normalizeStringList(GetField(merged, "tags")),
         interfaces |-> normalizeStringList(GetField(merged, "interfaces")),
         mcu |-> normalizeStringList(GetField(merged, "mcu")),
         boardCompatibility |-> boardCompatibility,
         compatibilitySummary |->
             normalizeCompatibilitySummary(GetField(merged, "compatibilitySummary"),
                                           boardCompatibility),
         supportStatus |-> normalizeSupportStatus(GetField(merged, "supportStatus")),
         quality |-> normalizeQuality(merged)]

\* The keys of a normalized record in the order of the object literal;
\* supportStatus is there only when recognized
RecordKeys(record) ==
    <<"id", "source", "latest", "versions", "summary", "updatedAt", "license",
      "tags", "interfaces", "mcu", "boardCompatibility", "compatibilitySummary">>
    \o (IF record.supportStatus # Null THEN <<"supportStatus">> ELSE <<>>)
    \o <<"quality">>

\* An array of strings as a JSON value
StringArray(list) == JArr([i \in DOMAIN list |-> JStr(list[i])])

\* A string or null as a JSON value
StringOrNull(x) == IF x = Null THEN JNull ELSE JStr(x)

\* The object normalizeLibraryRecord returns as a JSON value, members in the
\* order of the object literal
RecordJson(record) ==
    JObj(<< Field("id", JStr(record.id)),
            Field("source", JObj(<< Field("provider", JStr(record.source.provider)),
                                     Field("url", JStr(record.source.url)) >>)),
            Field("latest", JStr(record.latest)),
            Field("versions", StringArray(record.versions)),
            Field("summary", JStr(record.summary)),
            Field("updatedAt", StringOrNull(record.updatedAt)),
            Field("license", StringOrNull(record.license)),
            Field("tags", StringArray(record.tags)),
            Field("interfaces", StringArray(record.interfaces)),
            Field("mcu", StringArray(record.mcu)),
            Field("boardCompatibility",
                   JObj([i \in DOMAIN record.boardCompatibility |->
                           LET b == record.boardCompatibility[i]
                           IN  Member(b.board,
                                      JObj(<< Field("status", JStr(b.status)) >>
                                           \o (IF b.notes # Null
                                                 THEN << Field("notes", JStr(b.notes)) >>
                                                 ELSE <<>>)))])),
            Field("compatibilitySummary",
                   JObj(<< Field("workingBoards",
                                  StringArray(record.compatibilitySummary.workingBoards)),
                           Field("brokenBoards",
                                  StringArray(record.compatibilitySummary.brokenBoards)),
                           Field("untestedBoards",
                                  StringArray(record.compatibilitySummary.untestedBoards)) >>)) >>
         \o (IF record.supportStatus # Null
               THEN << Field("supportStatus", JStr(record.supportStatus)) >>
               ELSE <<>>)
         \o << Field("quality", record.quality) >>)


\* ------------------------------------------------------------------------
\* Sync: run() of sync-xodio.js
\* ------------------------------------------------------------------------
HREF_AX_UPPER == <<"A", "/", "X">>

V100 == <<"1", ".", "0", ".", "0">>

\* The list pages the registry can serve: the ids of their /libs/<id> links, in
\* document order
ListPages == { <<>>, <<ID_AX>>, <<ID_BY>>, <<ID_BY, ID_AX>>, <<HREF_AX_UPPER, ID_AX>> }

\* The identifiers the registry's pages can yield
RegistryIds == {normalizeId(h) : h \in UNION {Range(p) : p \in ListPages}} \ {Null}

\* What `await fetchHtmlWithRetry(url)` comes to: { ok: true, text }, { ok: false,
\* status } for a status that is not retried, or a throw once the retries are used up
HtmlOk(hrefs) == [kind |-> "result", status |-> 200, hrefs |-> hrefs]

HtmlStatus(status) == [kind |-> "result", status |-> status, hrefs |-> <<>>]

HtmlThrows == [kind |-> "throws", status |-> 0, hrefs |-> <<>>]

ListAnswers == {HtmlOk(p) : p \in ListPages} \cup {HtmlStatus(404), HtmlStatus(403), HtmlThrows}

\* fetchListPage's results: the page's text, null, or a throw
ListHtml(hrefs) == [kind |-> "html", hrefs |-> hrefs]

ListNull == [kind |-> "null", hrefs |-> <<>>]

ListThrows == [kind |-> "throws", hrefs |-> <<>>]

\* How fetchHtmlWithRetry came back for one candidate url
AnswerTag(res) ==
    IF res.kind = "throws" THEN "throws"
    ELSE IF ResponseOk(res.status) THEN "ok"
    ELSE IF res.status = 404 THEN "404"
    ELSE "status"

\* `candidates` of fetchListPage: one url for page 1, two for the others
ListCandidateCount(pageNumber) == IF pageNumber = 1 THEN 1 ELSE 2

\* Mutant: a 404 on the first candidate ends the page.
fetchListPage_StopsAt404(pageNumber, answers) ==
    LET res == Head(answers)
    IN  IF res.kind = "throws" THEN ListThrows
        ELSE IF ResponseOk(res.status) THEN ListHtml(res.hrefs)
        ELSE IF res.status = 404 THEN ListNull
        ELSE ListThrows

\* The for loop of fetchListPage over the answers of its candidate urls
RECURSIVE TryListCandidates(_)
TryListCandidates(answers) ==
    IF answers = <<>> THEN ListNull
    ELSE LET res == Head(answers)
         IN  IF res.kind = "throws" THEN ListThrows
             ELSE IF ResponseOk(res.status) THEN ListHtml(res.hrefs)
             ELSE IF res.status = 404 THEN TryListCandidates(Tail(answers))
             ELSE ListThrows

\* The candidate urls fetchListPage requests, each once and in order, up to the
\* one that ends its loop: how each came back
RECURSIVE RequestedCandidates(_)
RequestedCandidates(answers) ==
    IF answers = <<>> THEN <<>>
    ELSE IF AnswerTag(Head(answers)) = "404"
      THEN <<"404">> \o RequestedCandidates(Tail(answers))
    ELSE <<AnswerTag(Head(answers))>>

CandidatesTried(pageNumber, answers) ==
    RequestedCandidates(SubSeq(answers, 1, ListCandidateCount(pageNumber)))

\* fetchListPage(pageNumber), given what its candidate urls answer
fetchListPage(pageNumber, answers) ==
    TryListCandidates(SubSeq(answers, 1, ListCandidateCount(pageNumber)))

\* extractLibraryIdsFromList(html)
extractLibraryIdsFromList(hrefs) ==
    LET normalized == [i \in DOMAIN hrefs |-> normalizeId(hrefs[i])]
        ids == SelectSeq(normalized, LAMBDA id : id # Null)
    IN  SortSeq(uniqStrings(ids), LAMBDA a, b : localeCompare(a, b) < 0)

\* Mutant: the crawl does not stop at a page that repeats known identifiers.
AllSeen_Never(ids, seenIds) == FALSE

\* `ids.every((id) => seenIds.has(id))`
AllSeen(ids, seenIds) == \A i \in DOMAIN ids : ids[i] \in seenIds

\* Mutant: the discovered identifiers are de-duplicated but left in crawl order.
UniqueIds_Unsorted(discoveredIds) == uniqStrings(discoveredIds)

\* `uniqStrings(discoveredIds).sort(...)`
UniqueIds(discoveredIds) ==
    SortSeq(uniqStrings(discoveredIds), LAMBDA a, b : localeCompare(a, b) < 0)

\* The version lists a detail page yields (extractVersionsFromText's result)
DetailVersionLists == { <<>>, <<V100>> }

DetailAnswers ==
    {[kind |-> "result", status |-> 200, versions |-> v] : v \in DetailVersionLists}
    \cup {[kind |-> "result", status |-> 404, versions |-> <<>>],
          [kind |-> "throws", status |-> 0, versions |-> <<>>]}

\* The array of strings a list of versions is in a record
VersionArray(versions) == JArr([i \in DOMAIN versions |-> JStr(versions[i])])

\* fetchLibraryDetail(id), given what its url answers: the base record, or a throw
\* (fetchHtmlWithRetry threw, or `!res.ok`); a page with no description, date or
\* license
fetchLibraryDetail(id, answer) ==
    IF answer.kind = "throws" THEN [thrown |-> "fetchThrows", detail |-> JUndefined]
    ELSE IF ~ResponseOk(answer.status) THEN [thrown |-> "httpStatus", detail |-> JUndefined]
    ELSE LET versions == answer.versions
             latest == IF versions # <<>> THEN Head(versions) ELSE LATEST
         IN  [thrown |-> "no",
              detail |->
                JObj(<< Field("id", JStr(id)),
                        Field("source", JObj(<< Field("provider", JStr(<<"xod.io">>)),
                                                 Field("url", JStr(LibraryUrl(id))) >>)),
                        Field("latest", JStr(latest)),
                        Field("versions",
                               VersionArray(IF versions # <<>> THEN versions ELSE <<latest>>)),
                        Field("summary", JStr(<<>>)),
                        Field("updatedAt", JNull),
                        Field("license", JNull),
                        Field("tags", JArr(<<>>)),
                        Field("interfaces", JArr(<<>>)),
                        Field("mcu", JArr(<<>>)),
                        Field("boardCompatibility", EmptyObject),
                        Field("compatibilitySummary",
                               JObj(<< Field("workingBoards", JArr(<<>>)),
                                       Field("brokenBoards", JArr(<<>>)),
                                       Field("untestedBoards", JArr(<<>>)) >>)),
                        Field("quality", EmptyObject) >>)]

\* parseLibIdFromRecord(record): the id, or Null
parseLibIdFromRecord(record) ==
    LET fromId == normalizeId(StringOf(GetField(record, "id")))
        owner == NonEmptyStringOf(GetField(record, "owner"))
        libname == NonEmptyStringOf(GetField(record, "libname"))
    IN  IF fromId # Null THEN fromId
        ELSE IF owner # Null /\ libname # Null THEN normalizeId(owner \o <<"/">> \o libname)
        ELSE Null

\* The reduce of readOverlayMap over an array of records
RECURSIVE ReduceOverlayRecords(_, _)
ReduceOverlayRecords(acc, records) ==
    IF records = <<>> THEN acc
    ELSE LET record == Head(records)
             id == parseLibIdFromRecord(IF Truthy(record) THEN record ELSE EmptyObject)
         IN  IF id = Null THEN ReduceOverlayRecords(acc, Tail(records))
             ELSE ReduceOverlayRecords(SetMember(acc, id, record), Tail(records))

\* The reduce of readOverlayMap over the members of a map keyed by id
RECURSIVE ReduceOverlayMembers(_, _)
ReduceOverlayMembers(acc, members) ==
    IF members = <<>> THEN acc
    ELSE LET rawId == Head(members).k
             entry == Head(members).v
             id == IF normalizeId(rawId) # Null THEN normalizeId(rawId)
                   ELSE parseLibIdFromRecord(IF Truthy(entry) THEN entry ELSE EmptyObject)
         IN  IF id = Null THEN ReduceOverlayMembers(acc, Tail(members))
             ELSE ReduceOverlayMembers(SetMember(acc, id, entry), Tail(members))

\* index/overlay.json: absent, a text JSON.parse rejects, or the text of a value
OverlayAbsent == NoOverlay

OverlayUnparseable == [present |-> TRUE, parses |-> FALSE, value |-> JUndefined]

OverlayFile(value) == [present |-> TRUE, parses |-> TRUE, value |-> value]

\* Mutant: a top-level value that is neither an object nor an array is taken as
\* an empty overlay.
OverlayShapeThrows_Never(parsed) == FALSE

\* `!parsed || typeof parsed !== "object"`, reached when parsed is not an array
\* and has no libraries array
OverlayShapeThrows(parsed) == parsed.t \notin {"object", "array"}

\* readOverlayMap(): the map keyed by id (its members), or a throw
readOverlayMap(file) ==
    IF file.present /\ ~file.parses THEN [thrown |-> TRUE, map |-> <<>>]
    ELSE LET parsed == IF file.present THEN file.value ELSE EmptyObject
         IN  IF parsed.t = "array"
               THEN [thrown |-> FALSE, map |-> ReduceOverlayRecords(<<>>, parsed.v)]
             ELSE IF GetField(parsed, "libraries").t = "array"
               THEN [thrown |-> FALSE,
                     map |-> ReduceOverlayRecords(<<>>, GetField(parsed, "libraries").v)]
             ELSE IF OverlayShapeThrows(parsed) THEN [thrown |-> TRUE, map |-> <<>>]
             ELSE [thrown |-> FALSE, map |-> ReduceOverlayMembers(<<>>, parsed.v)]

\* `overlay[id] || {}`
OverlayEntry(overlay, id) ==
    LET entry == Get(JObj(overlay), id)
    IN  IF Truthy(entry) THEN entry ELSE EmptyObject

\* How the calls of fn inside retry(fn) can end, one per attempt
NormalizeAttempts == [1..MAX_NORMALIZE_RETRIES -> {"returns", "throws"}]

\* retry(fn, attempts): TRUE if some call of fn returned (the first such call's
\* value is returned), FALSE if every call threw (lastError is thrown)
retry(outcomes, attempts) == \E i \in 1..attempts : outcomes[i] = "returns"

\* Mutant: the records stay in the order they were produced in.
SortLibraries_AsProduced(libraries) == libraries

\* `libraries.sort((a, b) => a.id.localeCompare(b.id))`
SortLibraries(libraries) ==
    SortSeq(libraries, LAMBDA a, b : localeCompare(a.id, b.id) < 0)

\* Mutant: an empty result is written like any other.
EmptyResultThrows_Never(libraries) == FALSE

\* `if (libraries.length === 0) throw`
EmptyResultThrows(libraries) == Len(libraries) = 0

\* `duplicateIds.length > 0`
HasDuplicateIds(libraries) ==
    \E i, j \in DOMAIN libraries : i < j /\ libraries[i].id = libraries[j].id

\* `!lib.id || !lib.source || !lib.latest` for some record
HasInvalidRecord(libraries) ==
    \E i \in DOMAIN libraries : libraries[i].id = <<>> \/ libraries[i].latest = <<>>

\* `new Date().toISOString()` of the run
Instants == {4, 5}

\* Texts of the overlay documents
TEXT_ONE == <<"o", "n", "e">>

TEXT_TWO == <<"t", "w", "o">>

V200 == <<"2", ".", "0", ".", "0">>

\* { "a/x": { summary: "one", latest: "2.0.0" } }
OverlayById ==
    OverlayFile(JObj(<< Member(ID_AX, JObj(<< Field("summary", JStr(TEXT_ONE)),
                                              Field("latest", JStr(V200)) >>)) >>))

\* { "a/x": { summary: "one" }, "A/X": { summary: "two" } }: two keys, one id
OverlayTwoKeysOneId ==
    OverlayFile(JObj(<< Member(ID_AX, JObj(<< Field("summary", JStr(TEXT_ONE)) >>)),
                        Member(HREF_AX_UPPER, JObj(<< Field("summary", JStr(TEXT_TWO)) >>)) >>))

\* [ { id: "b/y", tags: ["two", "one"] }, { summary: "one" } ]: the second record
\* names no library
OverlayRecords ==
    OverlayFile(JArr(<< JObj(<< Field("id", JStr(ID_BY)),
                                Field("tags", JArr(<<JStr(TEXT_TWO), JStr(TEXT_ONE)>>)) >>),
                        JObj(<< Field("summary", JStr(TEXT_ONE)) >>) >>))

\* { libraries: [ { owner: "a", libname: "x", supportStatus: "stable" } ] }
OverlayLibraries ==
    OverlayFile(JObj(<< Field("libraries",
                              JArr(<< JObj(<< Field("owner", JStr(<<"a">>)),
                                              Field("libname", JStr(<<"x">>)),
                                              Field("supportStatus", JStr(STABLE)) >>) >>)) >>))

\* A top-level string, a top-level null
OverlayString == OverlayFile(JStr(TEXT_ONE))

OverlayNull == OverlayFile(JNull)

OverlayFiles ==
    {OverlayAbsent, OverlayUnparseable, OverlayString, OverlayNull,
     OverlayById, OverlayTwoKeysOneId, OverlayRecords, OverlayLibraries}

\* The file a process killed inside fs.writeFile leaves: the start of the text
PartialFile == [present |-> TRUE, generatedAt |-> 0, libraries |-> Null]

\* Mutant: the catalog is written in place.
FilesAfterCutWrite_InPlace(index, tmp) == [index |-> PartialFile, tmp |-> tmp]

\* index.json and index.json.tmp after a fs.writeFile(tempPath, ...) that was cut short
FilesAfterCutWrite(index, tmp) == [index |-> index, tmp |-> PartialFile]

\* run(), from its start to the first fetchListPage call: readOverlayMap.
sync_Start ==
    /\ UNCHANGED notSyncVars
    /\ s_pc = "idle"
    /\ s_indexBefore' = d_index
    /\ LET overlay == readOverlayMap(d_overlay)
       IN  IF overlay.thrown
             THEN s_pc' = "failed" /\ s_failure' = "overlay" /\ UNCHANGED s_overlay
             ELSE s_pc' = "crawl" /\ s_overlay' = overlay.map /\ UNCHANGED s_failure
    /\ UNCHANGED <<s_page, s_seenIds, s_discoveredIds, s_uniqueIds, s_queue,
                   s_libraries, s_skippedIds, s_tmp, d_overlay,
                   s_pagesFetched, s_lastPage, s_detail>>
    /\ UNCHANGED d_index

\* One iteration of the crawl loop; when it breaks, the code up to the detail loop.
sync_ListPage ==
    /\ UNCHANGED notSyncVars
    /\ s_pc = "crawl"
    /\ \E first \in ListAnswers, second \in ListAnswers :
         LET html == fetchListPage(s_page, <<first, second>>)
             ids == extractLibraryIdsFromList(html.hrefs)
             uniqueIds == UniqueIds(s_discoveredIds)
             break == /\ s_uniqueIds' = uniqueIds
                      /\ IF Len(uniqueIds) = 0
                           THEN /\ s_pc' = "failed"
                                /\ s_failure' = "noLibraries"
                                /\ s_queue' = <<>>
                           ELSE /\ s_pc' = "detail"
                                /\ s_failure' = "none"
                                /\ s_queue' = uniqueIds
                      /\ UNCHANGED <<s_page, s_seenIds, s_discoveredIds>>
         IN  /\ s_pagesFetched' = s_pagesFetched + 1
             /\ s_lastPage' = [page |-> s_page,
                               tried |-> CandidatesTried(s_page, <<first, second>>),
                               kind |-> html.kind,
                               ids |-> ids,
                               fresh |-> Range(ids) \ s_seenIds]
             /\ IF html.kind = "throws"
                  THEN /\ s_pc' = "failed"
                       /\ s_failure' = "listPage"
                       /\ UNCHANGED <<s_page, s_seenIds, s_discoveredIds, s_uniqueIds, s_queue>>
                ELSE IF html.kind = "null"
                  THEN IF s_page = 1
                         THEN /\ s_pc' = "failed"
                              /\ s_failure' = "initialPage"
                              /\ UNCHANGED <<s_page, s_seenIds, s_discoveredIds,
                                             s_uniqueIds, s_queue>>
                         ELSE break
                ELSE IF Len(ids) = 0 THEN break
                ELSE IF AllSeen(ids, s_seenIds) THEN break
                ELSE /\ s_discoveredIds' = s_discoveredIds \o ids
                     /\ s_seenIds' = s_seenIds \cup Range(ids)
                     /\ s_page' = s_page + 1
                     /\ UNCHANGED <<s_pc, s_failure, s_uniqueIds, s_queue>>
    /\ UNCHANGED <<s_libraries, s_skippedIds, s_tmp, s_overlay, d_overlay,
                   s_detail, s_indexBefore>>
    /\ UNCHANGED d_index

\* One iteration of the detail loop: the try block and its catch.
sync_Detail ==
    /\ UNCHANGED notSyncVars
    /\ s_pc = "detail" /\ s_queue # <<>>
    /\ LET id == Head(s_queue)
       IN  \E answer \in DetailAnswers, outcomes \in NormalizeAttempts :
             LET detail == fetchLibraryDetail(id, answer)
             IN  /\ s_queue' = Tail(s_queue)
                 /\ IF detail.thrown # "no"
                      THEN /\ s_skippedIds' = Append(s_skippedIds, id)
                           /\ s_detail' = Put(s_detail, id, detail.thrown)
                           /\ UNCHANGED s_libraries
                    ELSE IF ~retry(outcomes, MAX_NORMALIZE_RETRIES)
                      THEN /\ s_skippedIds' = Append(s_skippedIds, id)
                           /\ s_detail' = Put(s_detail, id, "normalizeThrows")
                           /\ UNCHANGED s_libraries
                    ELSE /\ s_libraries' =
                              Append(s_libraries,
                                     normalizeLibraryRecord(detail.detail,
                                                            OverlayEntry(s_overlay, id)))
                         /\ s_detail' = Put(s_detail, id, "processed")
                         /\ UNCHANGED s_skippedIds
    /\ UNCHANGED <<s_pc, s_page, s_seenIds, s_discoveredIds, s_uniqueIds, s_tmp,
                   s_overlay, d_overlay,
                   s_pagesFetched, s_lastPage, s_failure, s_indexBefore>>
    /\ UNCHANGED d_index

\* After the detail loop: sort, the three checks, fs.writeFile(tempPath, ...).
sync_WriteTemp ==
    /\ UNCHANGED notSyncVars
    /\ s_pc = "detail" /\ s_queue = <<>>
    /\ LET libraries == SortLibraries(s_libraries)
       IN  /\ s_libraries' = libraries
           /\ IF EmptyResultThrows(libraries)
                THEN s_pc' = "failed" /\ s_failure' = "allFailed" /\ UNCHANGED s_tmp
              ELSE IF HasDuplicateIds(libraries)
                THEN s_pc' = "failed" /\ s_failure' = "duplicateIds" /\ UNCHANGED s_tmp
              ELSE IF HasInvalidRecord(libraries)
                THEN s_pc' = "failed" /\ s_failure' = "invalidRecord" /\ UNCHANGED s_tmp
              ELSE \E now \in Instants :
                     /\ s_tmp' = Index(now, libraries)
                     /\ s_pc' = "rename"
                     /\ UNCHANGED s_failure
    /\ UNCHANGED <<s_page, s_seenIds, s_discoveredIds, s_uniqueIds, s_queue, s_skippedIds,
                   s_overlay, d_overlay,
                   s_pagesFetched, s_lastPage, s_detail, s_indexBefore>>
    /\ UNCHANGED d_index

\* fs.rename(tempPath, OUTPUT_PATH); run() returns.
sync_Rename ==
    /\ UNCHANGED notSyncVars
    /\ s_pc = "rename"
    /\ d_index' = s_tmp
    /\ s_tmp' = NoIndex
    /\ s_pc' = "written"
    /\ UNCHANGED <<s_page, s_seenIds, s_discoveredIds, s_uniqueIds, s_queue,
                   s_libraries, s_skippedIds, s_overlay, d_overlay,
                   s_pagesFetched, s_lastPage, s_detail, s_failure, s_indexBefore>>

\* The process is killed: between two steps, or inside fs.writeFile.
sync_Crash ==
    /\ UNCHANGED notSyncVars
    /\ s_pc \in {"crawl", "detail", "rename"}
    /\ s_pc' = "crashed"
    /\ LET libraries == SortLibraries(s_libraries)
           writing == /\ s_pc = "detail" /\ s_queue = <<>>
                      /\ ~EmptyResultThrows(libraries)
                      /\ ~HasDuplicateIds(libraries)
                      /\ ~HasInvalidRecord(libraries)
       IN  \/ UNCHANGED <<d_index, s_tmp>>
           \/ /\ writing
              /\ d_index' = FilesAfterCutWrite(d_index, s_tmp).index
              /\ s_tmp' = FilesAfterCutWrite(d_index, s_tmp).tmp
    /\ UNCHANGED <<s_page, s_seenIds, s_discoveredIds, s_uniqueIds, s_queue,
                   s_libraries, s_skippedIds, s_overlay, d_overlay,
                   s_pagesFetched, s_lastPage, s_detail, s_failure, s_indexBefore>>

SyncInit ==
    /\ FetchIdle /\ MirrorIdle /\ SyncIdle /\ NormIdle /\ IdIdle
    /\ d_index \in {NoIndex, IndexOneLib}
    /\ d_overlay \in OverlayFiles

SyncNext ==
    \/ sync_Start
    \/ sync_ListPage
    \/ sync_Detail
    \/ sync_WriteTemp
    \/ sync_Rename
    \/ sync_Crash

SpecSync == SyncInit /\ [][SyncNext]_vars

\* ------------------------------------------------------------------------
\* Merge and normalisation of one record: normalizeLibraryRecord, and the
\* records of a run after the sort
\* ------------------------------------------------------------------------
V120 == <<"1", ".", "2", ".", "0">>

V1100 == <<"1", ".", "1", "0", ".", "0">>

V120_BETA == <<"1", ".", "2", ".", "0", "-", "b", "e", "t", "a">>

V120_ALPHA == <<"1", ".", "2", ".", "0", "-", "a", "l", "p", "h", "a">>

V100_A1 == <<"1", ".", "0", ".", "0", "-", "a", "-", "1">>

V100_A2 == <<"1", ".", "0", ".", "0", "-", "a", "-", "2">>

V200_PADDED == <<" ", "2", ".", "0", ".", "0">>

TEXT_ONE_PADDED == <<" ", "o", "n", "e", " ">>

UNO == <<"u", "n", "o">>

NANO == <<"n", "a", "n", "o">>

MEGA == <<"m", "e", "g", "a">>

GITHUB == <<"g", "i", "t", "h", "u", "b">>

\* The records fetchLibraryDetail returns for a/x: a page with no version, a
\* page with version 1.0.0
NormBases ==
    {fetchLibraryDetail(ID_AX, answer).detail :
        answer \in {a \in DetailAnswers : fetchLibraryDetail(ID_AX, a).thrown = "no"}}

\* The record of the other library of a run
OtherBase == fetchLibraryDetail(ID_BY, [kind |-> "result", status |-> 200,
                                        versions |-> <<V100>>]).detail

\* Overlay entries: what overlay[id] may be in an overlay document
NormEntries ==
    { EmptyObject,
      JStr(TEXT_ONE),
      JObj(<< Field("summary", JStr(TEXT_ONE)) >>),
      JObj(<< Field("summary", JStr(TEXT_ONE_PADDED)) >>),
      JObj(<< Field("summary", JNum(5)) >>),
      JObj(<< Field("id", JStr(ID_BY)), Field("summary", JStr(TEXT_TWO)) >>),
      JObj(<< Field("latest", JStr(V200)) >>),
      JObj(<< Field("latest", JStr(<<>>)), Field("versions", JArr(<<>>)) >>),
      JObj(<< Field("latest", JNull), Field("versions", JStr(V200)) >>),
      JObj(<< Field("versions", StringArray(<<V120, V1100, V120_BETA>>)) >>),
      JObj(<< Field("versions", StringArray(<<V120_BETA, V120_ALPHA, V120>>)) >>),
      JObj(<< Field("versions", StringArray(<<V200, V200_PADDED, V200>>)) >>),
      JObj(<< Field("latest", JStr(V100_A2)),
              Field("versions", StringArray(<<V100_A1, V100_A2>>)) >>),
      JObj(<< Field("latest", JStr(V100_A2)),
              Field("versions", StringArray(<<V100_A2, V100_A1>>)) >>),
      JObj(<< Field("tags", StringArray(<<TEXT_TWO, TEXT_ONE, TEXT_TWO>>)) >>),
      JObj(<< Field("tags", JStr(TEXT_ONE)), Field("mcu", StringArray(<<UNO>>)) >>),
      JObj(<< Field("source", JObj(<< Field("provider", JStr(GITHUB)) >>)) >>),
      JObj(<< Field("source", JObj(<< Field("mirror", JStr(TEXT_ONE)) >>)),
              Field("license", JStr(TEXT_TWO)) >>),
      JObj(<< Field("source", JStr(GITHUB)) >>),
      JObj(<< Field("boardCompatibility",
                     JObj(<< Member(UNO, JObj(<< Field("status", JStr(WORKING)) >>)),
                             Member(NANO, JObj(<< Field("status", JStr(BROKEN)),
                                                  Field("notes", JStr(TEXT_ONE)) >>)),
                             Member(MEGA, JObj(<< Field("status", JStr(GITHUB)) >>)) >>)) >>),
      JObj(<< Field("boardCompatibility",
                     JObj(<< Member(<<"b">>, JObj(<< Field("status", JStr(BROKEN)) >>)),
                             Member(<<"a">>, JObj(<< Field("status", JStr(WORKING)) >>)),
                             Member(<<" ">>, JObj(<< Field("status", JStr(WORKING)) >>)),
                             Member(<<"c">>, JStr(WORKING)) >>)) >>),
      JObj(<< Field("boardCompatibility",
                     JObj(<< Member(UNO, JObj(<< Field("status", JStr(UNTESTED)) >>)) >>)),
              Field("compatibilitySummary",
                     JObj(<< Field("workingBoards", StringArray(<< <<" ">> >>)),
                             Field("brokenBoards", JNum(5)) >>)) >>),
      JObj(<< Field("compatibilitySummary",
                     JObj(<< Field("workingBoards", StringArray(<<UNO>>)),
                             Field("brokenBoards", StringArray(<<NANO>>)) >>)) >>),
      JObj(<< Field("compatibilitySummary",
                     JObj(<< Field("workingBoards", StringArray(<<UNO, NANO>>)),
                             Field("brokenBoards", StringArray(<<UNO>>)) >>)) >>),
      JObj(<< Field("boardCompatibility",
                     JObj(<< Member(UNO, JObj(<< Field("status", JStr(WORKING)) >>)) >>)),
              Field("compatibilitySummary",
                     JObj(<< Field("untestedBoards", StringArray(<<UNO>>)),
                             Field("workingBoards", StringArray(<<UNO>>)) >>)) >>),
      JObj(<< Field("supportStatus", JStr(STABLE)) >>),
      JObj(<< Field("supportStatus", JStr(GITHUB)) >>),
      JObj(<< Field("quality", JObj(<< Field("hasExamples", JBool(TRUE)),
                                       Field("stars", JNum(5)) >>)) >>),
      JObj(<< Field("hasReadme", JBool(FALSE)),
              Field("quality", JObj(<< Field("hasExamples", JStr(TEXT_ONE)) >>)) >>) }

\* The overlay map of a run whose only entry is the one of a/x
OverlayOf(entry) == << Member(ID_AX, entry) >>

\* The detail loop of run() on a list of discovered records, then the sort
RECURSIVE NormalizeAll(_, _)
NormalizeAll(bases, overlay) ==
    IF bases = <<>> THEN <<>>
    ELSE <<normalizeLibraryRecord(Head(bases),
                                  OverlayEntry(overlay, StringOf(GetField(Head(bases), "id"))))>>
         \o NormalizeAll(Tail(bases), overlay)

\* The records of a run: every discovered record merged and normalized, sorted
LibrariesOf(bases, overlay) == SortLibraries(NormalizeAll(bases, overlay))

\* The orders in which a run may have produced its two discovered records
Batches(base) == { <<base, OtherBase>>, <<OtherBase, base>> }

\* `const merged = deepMerge(baseLib, overlayEntry)`
norm_Merge ==
    /\ UNCHANGED notNormVars
    /\ n_pc = "start"
    /\ n_merged' = deepMerge(n_base, n_entry)
    /\ n_pc' = "merged"
    /\ UNCHANGED <<n_base, n_entry, n_out, n_first, n_second>>

\* The rest of normalizeLibraryRecord: the record it returns
norm_Normalize ==
    /\ UNCHANGED notNormVars
    /\ n_pc = "merged"
    /\ n_out' = normalizeLibraryRecord(n_base, n_entry)
    /\ n_pc' = "normalized"
    /\ UNCHANGED <<n_base, n_entry, n_merged, n_first, n_second>>

\* The merge/normalize step of a run on the record and another one
norm_Run ==
    /\ UNCHANGED notNormVars
    /\ n_pc = "normalized"
    /\ \E bases \in Batches(n_base) :
         n_first' = [bases |-> bases, libraries |-> LibrariesOf(bases, OverlayOf(n_entry))]
    /\ n_pc' = "once"
    /\ UNCHANGED <<n_base, n_entry, n_merged, n_out, n_second>>

\* The same step once more, on the same records and the same overlay
norm_Again ==
    /\ UNCHANGED notNormVars
    /\ n_pc = "once"
    /\ \E bases \in Batches(n_base) :
         n_second' = [bases |-> bases, libraries |-> LibrariesOf(bases, OverlayOf(n_entry))]
    /\ n_pc' = "twice"
    /\ UNCHANGED <<n_base, n_entry, n_merged, n_out, n_first>>

NormInit ==
    /\ FetchIdle /\ MirrorIdle /\ SyncIdle /\ IdIdle
    /\ d_index = NoIndex /\ d_overlay = NoOverlay
    /\ n_pc = "start"
    /\ n_base \in NormBases
    /\ n_entry \in NormEntries
    /\ n_merged = <<>>
    /\ n_out = <<>>
    /\ n_first = <<>>
    /\ n_second = <<>>

NormNext ==
    \/ norm_Merge
    \/ norm_Normalize
    \/ norm_Run
    \/ norm_Again

SpecNormalize == NormInit /\ [][NormNext]_vars

\* ------------------------------------------------------------------------
\* Identifiers: normalizeId on its own
\* ------------------------------------------------------------------------
\* The longest string of the enumerated arguments
MaxIdLen == 4

\* The characters of the enumerated arguments: a letter of each case, the
\* slash, a blank and a character outside the class
IdAlphabet == {"a", "B", "/", " ", "!"}

\* The strings over IdAlphabet of length n
StringsOfLength(n) == [1..n -> IdAlphabet]

ID_FOO_BAR_MIXED == <<"F", "o", "o", "/", "B", "a", "r">>

ID_FOO_BAR == <<"f", "o", "o", "/", "b", "a", "r">>

ID_FOO_BAR_SLASHES == <<"/">> \o ID_FOO_BAR \o <<"/">>

ID_FOO == <<"f", "o", "o">>

ID_FOO_2_BAR == <<"f", "o", "o", "/", "/", "b", "a", "r">>

ID_FOO_BAR_BAZ == <<"f", "o", "o", " ", "b", "a", "r", "/", "b", "a", "z">>

\* The arguments normalizeId is given: a value that is no string (Null), the
\* short strings, the examples of the documentation
IdInputs ==
    {Null}
    \cup UNION {StringsOfLength(n) : n \in 0..MaxIdLen}
    \cup {ID_FOO_BAR_MIXED, ID_FOO_BAR, ID_FOO_BAR_SLASHES, ID_FOO, ID_FOO_2_BAR,
          ID_FOO_BAR_BAZ, <<" ", "/">> \o ID_FOO_BAR_MIXED \o <<"/", "/", "\t">>}

\* normalizeId(value)
id_Normalize ==
    /\ UNCHANGED notIdVars
    /\ i_pc = "start"
    /\ i_out' = normalizeId(i_input)
    /\ i_pc' = "normalized"
    /\ UNCHANGED <<i_input, i_again>>

\* normalizeId of the value it returned
id_Again ==
    /\ UNCHANGED notIdVars
    /\ i_pc = "normalized"
    /\ i_again' = normalizeId(i_out)
    /\ i_pc' = "again"
    /\ UNCHANGED <<i_input, i_out>>

IdInit ==
    /\ FetchIdle /\ MirrorIdle /\ SyncIdle /\ NormIdle
    /\ d_index = NoIndex /\ d_overlay = NoOverlay
    /\ i_pc = "start"
    /\ i_input \in IdInputs
    /\ i_out = <<>>
    /\ i_again = <<>>

IdNext ==
    \/ id_Normalize
    \/ id_Again

SpecIds == IdInit /\ [][IdNext]_vars

\* ========================================================================
\* Properties of the fetch layer (SpecFetch)
\* ========================================================================

\* The statuses the specification lists as retryable.
SpecRetryableStatuses == {408, 429, 500, 502, 503, 504}

\* C6 -- Retry exhaustion.  In both layers, with the default retry count 4: a call
\* whose every attempt was answered HTTP 503 never returns a value; once its 5th
\* attempt has been answered it has failed; and when it has failed it has issued
\* exactly 5 requests, slept exactly 4 times (attempt 1..4, never after the 5th)
\* and thrown an error that names the url.
C6_RetryExhaustion ==
    (f_layer \in {"html", "json"} /\ f_all503 /\ f_requests > 0) =>
        /\ f_pc # "returned"
        /\ f_pc = "sleep" => (f_attempt <= MAX_FETCH_RETRIES /\ Len(f_waits) = f_requests)
        /\ (f_requests = MAX_FETCH_RETRIES + 1 /\ f_pc # "headers") => f_pc = "thrown"
        /\ f_pc = "thrown" =>
             /\ f_requests = MAX_FETCH_RETRIES + 1
             /\ Len(f_waits) = MAX_FETCH_RETRIES
             /\ f_result.kind = "exhausted"
             /\ f_result.url = f_url

\* Witness of C6: both layers have failed a call after five 503 answers, and the
\* json call that just failed is one of them.
C6_Witness ==
    /\ f_exhausted503 = {"html", "json"}
    /\ f_layer = "json" /\ f_pc = "thrown" /\ f_all503
    /\ f_requests = 5 /\ Len(f_waits) = 4

\* C7 -- Each of 408, 429, 500, 502, 503, 504 is retryable in both layers: after
\* a response with such a status, while attempts remain, the call is sleeping its
\* backoff or starting the next attempt (it has neither returned nor thrown).
C7_RetryableInBothLayers ==
    (f_lastStatus \in SpecRetryableStatuses /\ f_attempt <= MAX_FETCH_RETRIES) =>
        f_pc \in {"sleep", "loopTop"}

\* C8 -- Every attempt is bounded by the request timeout at every phase: while a
\* request is in flight, waiting for the headers or for the body, the abort timer
\* is armed.
C8_EveryPhaseBounded ==
    f_pc \in {"headers", "body"} => f_timer

\* ========================================================================
\* Properties of the mirror (SpecMirror)
\* ========================================================================

\* The state document as last written
WrittenArtifacts == d_state.artifacts

\* The candidates this run has handled so far
Handled == DOMAIN h_outcome

HandledAs(outcome) == {k \in Handled : h_outcome[k] = outcome}

\* The prior state records k, with the path derived for that candidate
RecordedWithDerivedPath(k) ==
    /\ k \in DOMAIN m_prior
    /\ m_prior[k].path = RelativePath(parseId(m_prior[k].id), m_prior[k].version)

\* The file of the prior entry k was on disk when the run started
FileWasPresent(k) == RecordedFile(m_prior[k]) \in h_filesAtStart

KEY_AX_V1 == ArtifactKey(ID_AX, <<"v", "1">>)

KEY_BY_LATEST == ArtifactKey(ID_BY, LATEST)

\* C1 -- State entries are never deleted by a run.  When a run has written
\* state.json, every key of the state it loaded is a key of the written state, and
\* its entry is the loaded one unless the run downloaded that candidate again;
\* whether or not the catalog still lists the library or the version.
C1_StateNeverLoses ==
    m_pc = "done" =>
        \A k \in DOMAIN m_prior :
            /\ k \in DOMAIN WrittenArtifacts
            /\ WrittenArtifacts[k] = m_prior[k] \/ k \in HandledAs("downloaded")

\* Witness of C1: a second run has written the state; one loaded entry belongs to
\* a library the catalog no longer lists and is carried unchanged, another was
\* downloaded again and overwritten.
C1_Witness ==
    /\ m_pc = "done" /\ h_run = 2
    /\ \E k \in DOMAIN m_prior :
         k \notin CandidateKeys(d_index) /\ WrittenArtifacts[k] = m_prior[k]
    /\ \E k \in DOMAIN m_prior :
         k \in HandledAs("downloaded") /\ WrittenArtifacts[k] # m_prior[k]

\* C2 (as claimed) -- At the end of every run every entry of the written state
\* refers to a file that exists on disk at its recorded path.
C2_EveryEntryHasFile ==
    m_pc = "done" =>
        \A k \in DOMAIN WrittenArtifacts :
            RecordedFile(WrittenArtifacts[k]) \in DOMAIN d_files

\* C2 (amended) -- At the end of every run, an entry of the written state whose
\* file is not on disk is an entry carried over unchanged from the loaded state
\* whose download failed in this run or whose candidate the run did not visit;
\* every entry the run downloaded or skipped has its file on disk, and a
\* downloaded entry's sha256 is that of the file's content.
C2_EntriesOfThisRunHaveFiles ==
    m_pc = "done" =>
        \A k \in DOMAIN WrittenArtifacts :
            /\ RecordedFile(WrittenArtifacts[k]) \notin DOMAIN d_files =>
                 /\ k \in DOMAIN m_prior
                 /\ WrittenArtifacts[k] = m_prior[k]
                 /\ k \notin Handled \/ k \in HandledAs("failed")
            /\ k \in HandledAs("downloaded") =>
                 /\ RecordedFile(WrittenArtifacts[k]) \in DOMAIN d_files
                 /\ WrittenArtifacts[k].sha256 = Sha256(d_files[RecordedFile(WrittenArtifacts[k])])

\* Witness of C2: a finished run downloaded one candidate, whose file is on disk,
\* and failed to download again another whose entry stays without a file.
C2_Witness ==
    /\ m_pc = "done"
    /\ \E k \in HandledAs("downloaded") :
         RecordedFile(WrittenArtifacts[k]) \in DOMAIN d_files
    /\ \E k \in HandledAs("failed") :
         /\ k \in DOMAIN WrittenArtifacts
         /\ RecordedFile(WrittenArtifacts[k]) \notin DOMAIN d_files

\* C3 -- Mirror idempotence.  A handled candidate that the loaded state records
\* with its derived path and whose file was on disk caused no fetchJsonWithRetry
\* call, is counted in skippedExisting and keeps its entry (in nextArtifacts and in
\* the written state); skippedExisting counts exactly the skipped candidates; and
\* a run started right after a run that ended with failed = 0, with the catalog
\* and the disk untouched in between, skips every candidate and downloads nothing.
C3_Idempotence ==
    /\ m_pc \in {"loop", "writeState", "done"} =>
         /\ \A k \in Handled :
              (RecordedWithDerivedPath(k) /\ FileWasPresent(k)) =>
                  /\ h_requests[k] = 0
                  /\ h_outcome[k] = "skipped"
                  /\ m_next[k] = m_prior[k]
                  /\ m_pc = "done" => WrittenArtifacts[k] = m_prior[k]
         /\ m_stats.skippedExisting = Cardinality(HandledAs("skipped"))
    /\ (h_clean /\ m_pc \in {"loop", "writeState", "done"}) =>
         /\ \A k \in Handled : h_outcome[k] = "skipped" /\ h_requests[k] = 0
         /\ m_stats.downloaded = 0 /\ m_stats.failed = 0
         /\ DOMAIN d_files = h_filesAtStart

\* Witness of C3: a run that followed a fully successful run has finished and has
\* skipped both candidates of the catalog.
C3_Witness ==
    /\ h_clean /\ m_pc = "done" /\ h_run = 2
    /\ HandledAs("skipped") = {KEY_AX_V1, KEY_BY_LATEST}
    /\ m_stats.skippedExisting = 2

\* C4 (as claimed) -- Mirror self-healing.  Once the loops are over, every candidate of the
\* catalog that the loaded state records and whose file was missing has been
\* handled; such a candidate was never skipped and was requested through exactly
\* one fetchJsonWithRetry call in the run; and when its download succeeded the
\* file is on disk again with the recorded content and its entry was overwritten
\* (in nextArtifacts and in the written state).
C4_SelfHealing ==
    /\ m_pc \in {"writeState", "done"} =>
         \A k \in CandidateKeys(d_index) :
             (k \in DOMAIN m_prior /\ ~FileWasPresent(k)) => k \in Handled
    /\ m_pc \in {"loop", "writeState", "done"} =>
         \A k \in Handled :
             (k \in DOMAIN m_prior /\ ~FileWasPresent(k)) =>
                 /\ h_requests[k] = 1
                 /\ h_outcome[k] # "skipped"
                 /\ h_outcome[k] = "downloaded" =>
                      /\ RecordedFile(m_next[k]) \in DOMAIN d_files
                      /\ Sha256(d_files[RecordedFile(m_next[k])]) = m_next[k].sha256
                      /\ m_next[k].mirroredAt = h_run
                      /\ m_next[k] # m_prior[k]
                      /\ m_pc = "done" => WrittenArtifacts[k] = m_next[k]

\* C5 -- A failed candidate is counted and isolated.  stats.failed counts exactly
\* the failed candidates; a failed key's entry is what the loaded state held
\* (absent if absent), in nextArtifacts and in the written state; a run that has
\* handled a candidate is never aborted; after the loops every candidate of the
\* catalog has been handled; and the finished run has written manifest and state.
C5_FailureIsolation ==
    /\ m_pc \in {"loop", "writeState", "done"} =>
         /\ m_stats.failed = Cardinality(HandledAs("failed"))
         /\ \A k \in HandledAs("failed") :
              IF k \in DOMAIN m_prior
                THEN k \in DOMAIN m_next /\ m_next[k] = m_prior[k]
                ELSE k \notin DOMAIN m_next
    /\ m_pc = "aborted" => Handled = {}
    /\ m_pc \in {"writeState", "done"} => Handled = CandidateKeys(d_index)
    /\ m_pc = "done" =>
         /\ d_manifest.present /\ d_manifest.generatedAt = h_run
         /\ d_manifest.stats.failed = m_stats.failed
         /\ d_state.present /\ d_state.generatedAt = h_run
         /\ \A k \in HandledAs("failed") :
              IF k \in DOMAIN m_prior
                THEN k \in DOMAIN WrittenArtifacts /\ WrittenArtifacts[k] = m_prior[k]
                ELSE k \notin DOMAIN WrittenArtifacts

\* Witness of C5: the first candidate, recorded in the loaded state, failed; the
\* candidate after it was downloaded; manifest and state are written.
C5_Witness ==
    /\ m_pc = "done"
    /\ KEY_AX_V1 \in DOMAIN m_prior
    /\ KEY_AX_V1 \in HandledAs("failed")
    /\ KEY_BY_LATEST \in HandledAs("downloaded")
    /\ d_manifest.stats.failed = 1 /\ d_manifest.stats.downloaded = 1

\* ========================================================================
\* Properties of the sync run (SpecSync)
\* ========================================================================

\* The identifiers of the records in a list of libraries
LibraryIds(libraries) == {libraries[i].id : i \in DOMAIN libraries}

\* The detail loop was entered
DetailLoopEntered ==
    s_pc \in {"detail", "rename", "written"}
    \/ (s_pc = "failed" /\ s_failure \notin {"overlay", "listPage", "initialPage", "noLibraries"})

\* The detail loop is over
DetailLoopOver ==
    (s_pc = "detail" /\ s_queue = <<>>)
    \/ s_pc \in {"rename", "written"}
    \/ (s_pc = "failed" /\ s_failure \notin {"overlay", "listPage", "initialPage", "noLibraries"})

\* C9 -- Crawl termination.  The crawl goes on to a next page only after a page
\* that yielded at least one identifier not seen before: after a page with no
\* identifiers, or with only identifiers seen on earlier pages, it has stopped.
\* The identifiers seen come from the registry's finite set, and the number of
\* list pages fetched never exceeds the number of distinct identifiers seen plus
\* one (while the crawl goes on, not even that number), whatever the registry
\* answers and even if it never answers 404.
C9_CrawlTermination ==
    /\ s_seenIds \subseteq RegistryIds
    /\ s_pagesFetched <= Cardinality(s_seenIds) + 1
    /\ s_pc = "crawl" =>
         /\ s_page = s_pagesFetched + 1
         /\ s_pagesFetched <= Cardinality(s_seenIds)
    /\ (s_lastPage.kind = "html" /\ (s_lastPage.ids = <<>> \/ s_lastPage.fresh = {})) =>
         s_pc # "crawl"
    /\ (s_pc = "crawl" /\ s_pagesFetched > 0) =>
         (s_lastPage.kind = "html" /\ s_lastPage.fresh # {})

\* Witness of C9: a registry that kept serving pages; the third page, fetched after
\* both identifiers were seen, repeated a known identifier and ended the crawl.
C9_Witness ==
    /\ s_pc = "detail"
    /\ s_seenIds = {ID_AX, ID_BY}
    /\ s_pagesFetched = Cardinality(s_seenIds) + 1
    /\ s_lastPage.kind = "html" /\ s_lastPage.ids # <<>> /\ s_lastPage.fresh = {}

\* C10 -- Per-identifier failure isolation in the sync run.  An identifier whose
\* detail fetch threw, was answered a non-success status, or whose normalization
\* threw on each attempt is in skippedIds and not in libraries; every other
\* handled identifier is in libraries; once the loop is over every identifier of
\* uniqueIds has been handled, whatever failed before it.  After the loop the run
\* fails only if no record survived, and then index.json is what it was; if a
\* record survived the catalog is written with exactly the surviving records.
C10_PerIdentifierIsolation ==
    /\ DetailLoopEntered =>
         /\ DOMAIN s_detail = Range(s_uniqueIds) \ Range(s_queue)
         /\ \A id \in DOMAIN s_detail :
              IF s_detail[id] = "processed"
                THEN id \in LibraryIds(s_libraries) /\ id \notin Range(s_skippedIds)
                ELSE id \in Range(s_skippedIds) /\ id \notin LibraryIds(s_libraries)
         /\ Len(s_libraries) + Len(s_skippedIds) = Cardinality(DOMAIN s_detail)
    /\ DetailLoopOver => DOMAIN s_detail = Range(s_uniqueIds)
    /\ (s_pc = "failed" /\ DetailLoopOver) =>
         /\ s_failure = "allFailed"
         /\ s_libraries = <<>>
         /\ Range(s_skippedIds) = Range(s_uniqueIds)
    /\ s_pc = "failed" => (d_index = s_indexBefore /\ s_tmp = NoIndex)
    /\ s_pc = "rename" => (s_libraries # <<>> /\ d_index = s_indexBefore)
    /\ s_pc = "written" =>
         /\ s_libraries # <<>>
         /\ d_index.present
         /\ d_index.libraries = s_libraries
         /\ LibraryIds(d_index.libraries) = {id \in DOMAIN s_detail : s_detail[id] = "processed"}

\* Witness of C10: the first identifier was skipped, the one after it was
\* processed, and the catalog was written with that record alone.
C10_Witness ==
    /\ s_pc = "written"
    /\ s_uniqueIds = <<ID_AX, ID_BY>>
    /\ s_detail[ID_AX] = "normalizeThrows"
    /\ s_detail[ID_BY] = "processed"
    /\ s_skippedIds = <<ID_AX>>
    /\ LibraryIds(d_index.libraries) = {ID_BY}

\* A list of identifiers, or the ids of a list of records, in strictly ascending
\* order of localeCompare (so no identifier occurs twice)
StrictlyAscendingIds(ids) ==
    \A i, j \in DOMAIN ids : i < j => localeCompare(ids[i], ids[j]) < 0

IdsOf(libraries) == [i \in DOMAIN libraries |-> libraries[i].id]

\* C11 -- The catalog of a successful sync run is sorted by id ascending and has
\* no two records with the same id, whatever the crawl found and whatever the
\* overlay holds: the identifiers the detail loop walks are already in strictly
\* ascending order, and so are the records of the temporary file and of the
\* index.json that the run wrote.
C11_CatalogSortedNoDuplicates ==
    /\ s_pc \in {"detail", "rename", "written"} => StrictlyAscendingIds(s_uniqueIds)
    /\ s_pc = "rename" => StrictlyAscendingIds(IdsOf(s_tmp.libraries))
    /\ s_pc = "written" =>
         /\ StrictlyAscendingIds(IdsOf(d_index.libraries))
         /\ \A i, j \in DOMAIN d_index.libraries :
              i # j => d_index.libraries[i].id # d_index.libraries[j].id

\* Witness of C11: the crawl met b/y before a/x and met a/x twice, the overlay
\* has an entry for a/x, and the catalog was written with a/x before b/y.
C11_Witness ==
    /\ s_pc = "written"
    /\ d_overlay = OverlayById
    /\ s_discoveredIds = <<ID_BY, ID_AX, ID_BY>>
    /\ IdsOf(d_index.libraries) = <<ID_AX, ID_BY>>

\* The identifier each entry of an overlay document resolves to, in document
\* order (Null for an entry that names no library)
OverlayResolvedIds(file) ==
    LET parsed == IF file.present /\ file.parses THEN file.value ELSE EmptyObject
        records == IF parsed.t = "array" THEN parsed.v
                   ELSE IF GetField(parsed, "libraries").t = "array"
                     THEN GetField(parsed, "libraries").v
                   ELSE <<>>
        members == IF parsed.t = "object" /\ GetField(parsed, "libraries").t # "array"
                     THEN parsed.v ELSE <<>>
    IN  [i \in DOMAIN records |->
            parseLibIdFromRecord(IF Truthy(records[i]) THEN records[i] ELSE EmptyObject)]
        \o [i \in DOMAIN members |->
              IF normalizeId(members[i].k) # Null THEN normalizeId(members[i].k)
              ELSE parseLibIdFromRecord(IF Truthy(members[i].v) THEN members[i].v
                                        ELSE EmptyObject)]

\* Two entries of the overlay document resolve to the same identifier
OverlayHasClash(file) ==
    LET ids == OverlayResolvedIds(file)
    IN  \E i, j \in DOMAIN ids : i < j /\ ids[i] # Null /\ ids[i] = ids[j]

\* The run has got past readOverlayMap
PastOverlay == s_pc \in {"crawl", "detail", "rename", "written"}

\* C12 (as claimed) -- An overlay in which two entries resolve to the same
\* identifier makes the run abort: the run never goes on to crawl, and never
\* writes a catalog, with one of the two entries standing for both.
C12_DuplicateEntriesAbort ==
    OverlayHasClash(d_overlay) => ~PastOverlay

\* C13 -- Atomic catalog write.  At every moment of a run, and after it however
\* it ended (a crash between two steps or inside fs.writeFile included),
\* index.json is never a partially written file: until the rename it is exactly
\* the file the run found, and after the rename it is the complete new catalog.
\* The temporary file is complete before the rename makes it visible.
C13_IndexPreviousOrNew ==
    /\ d_index # PartialFile
    /\ s_pc \notin {"idle", "written"} => d_index = s_indexBefore
    /\ s_pc = "rename" =>
         /\ s_tmp.present
         /\ s_tmp.libraries = s_libraries
         /\ s_tmp.generatedAt \in Instants
    /\ s_pc = "written" =>
         /\ d_index.present
         /\ d_index.libraries = s_libraries
         /\ d_index.generatedAt \in Instants
         /\ s_tmp = NoIndex

\* Witness of C13: the process was killed inside fs.writeFile; the temporary
\* file is cut short and index.json is still the previous catalog.
C13_Witness ==
    /\ s_pc = "crashed"
    /\ s_tmp = PartialFile
    /\ d_index = IndexOneLib
    /\ s_indexBefore = IndexOneLib

\* The overlay file exists and is not JSON, or its top-level value is neither an
\* object nor an array
OverlayUnusable(file) ==
    file.present /\ (~file.parses \/ file.value.t \notin {"object", "array"})

\* C14 -- A run that ends with a fatal condition writes nothing.  A failed run
\* leaves index.json as it found it and has written no temporary file, and it
\* failed for one of the fatal conditions: an unusable overlay (the run then
\* never crawls), a list page that threw, a first list page that could not be
\* fetched, no identifier discovered, every identifier skipped, a duplicate id,
\* or a record without id, source or latest.
C14_FatalLeavesCatalog ==
    /\ OverlayUnusable(d_overlay) => s_pc \in {"idle", "failed"}
    /\ s_pc = "failed" =>
         /\ d_index = s_indexBefore
         /\ s_tmp = NoIndex
         /\ \/ s_failure = "overlay" /\ OverlayUnusable(d_overlay) /\ s_pagesFetched = 0
            \/ s_failure = "listPage" /\ s_lastPage.kind = "throws"
            \/ s_failure = "initialPage" /\ s_lastPage.kind = "null" /\ s_page = 1
            \/ s_failure = "noLibraries" /\ s_uniqueIds = <<>>
            \/ s_failure = "allFailed" /\ s_libraries = <<>> /\ s_skippedIds = s_uniqueIds
            \/ s_failure = "duplicateIds" /\ HasDuplicateIds(s_libraries)
            \/ s_failure = "invalidRecord" /\ HasInvalidRecord(s_libraries)

\* Witness of C14: the overlay's top-level value is a string; the run failed in
\* readOverlayMap and the catalog of the previous run is still in place.
C14_Witness ==
    /\ s_pc = "failed"
    /\ s_failure = "overlay"
    /\ d_overlay = OverlayString
    /\ d_index = IndexOneLib
    /\ s_tmp = NoIndex

\* The overlay document is malformed: it is not JSON, its top-level value is
\* neither an object nor an array, or one of its entries names no library
OverlayMalformed(file) ==
    \/ OverlayUnusable(file)
    \/ \E i \in DOMAIN OverlayResolvedIds(file) : OverlayResolvedIds(file)[i] = Null

\* C16 (as claimed) -- Every malformed overlay aborts the run before any
\* crawling: with such a document on disk the run never gets past
\* readOverlayMap.
C16_MalformedOverlayAborts ==
    OverlayMalformed(d_overlay) => ~PastOverlay

\* The prerelease suffix of a version: what follows its first hyphen
SuffixOf(v) ==
    IF \A i \in DOMAIN v : v[i] # "-" THEN <<>>
    ELSE SubSeq(v, (CHOOSE i \in DOMAIN v : v[i] = "-" /\ \A j \in 1..(i - 1) : v[j] # "-") + 1,
                Len(v))

\* major, minor and patch of a version
CoreOf(v) == ParseVersion(v).parts

\* a goes before b in the order of the version lists: higher major, then minor,
\* then patch; at equal core no suffix before a suffix, and two suffixes in
\* lexicographic order
VersionBefore(a, b) ==
    LET ca == CoreOf(a)
        cb == CoreOf(b)
    IN  IF ca[1] # cb[1] THEN ca[1] > cb[1]
        ELSE IF ca[2] # cb[2] THEN ca[2] > cb[2]
        ELSE IF ca[3] # cb[3] THEN ca[3] > cb[3]
        ELSE IF SuffixOf(a) = <<>> \/ SuffixOf(b) = <<>>
          THEN SuffixOf(a) = <<>> /\ SuffixOf(b) # <<>>
        ELSE localeCompare(SuffixOf(a), SuffixOf(b)) < 0

\* No version of the list stands after one it goes before
InVersionOrder(versions) ==
    \A i, j \in DOMAIN versions : i < j => ~VersionBefore(versions[j], versions[i])

\* C18 (as claimed) -- The versions of every normalized record are in version
\* order: descending by major, minor, patch; at equal core a version without
\* suffix first; two suffixed versions by the lexicographic order of their
\* suffixes.
C18_VersionsInOrder ==
    n_pc \in {"normalized", "once", "twice"} => InVersionOrder(n_out.versions)

\* The example of C18: ["1.2.0", "1.10.0", "1.2.0-beta"] (with the page's 1.0.0
\* or "latest") comes out as 1.10.0, 1.2.0, 1.2.0-beta, then the rest
C18_Example ==
    (/\ n_pc = "normalized"
     /\ GetField(n_entry, "versions") = StringArray(<<V120, V1100, V120_BETA>>))
    => SubSeq(n_out.versions, 1, 3) = <<V1100, V120, V120_BETA>>

\* normalizeLibraryRecord has returned
Normalized == n_pc \in {"normalized", "once", "twice"}

\* No element occurs twice in the list
NoDuplicates(list) == \A i, j \in DOMAIN list : i # j => list[i] # list[j]

\* C19 -- latest and versions of a normalized record.  latest is a non-empty
\* string: the merged latest if that is a non-empty string, else the discovered
\* latest, else "latest".  versions is not empty, holds no version twice and
\* contains latest.
C19_LatestAndVersions ==
    Normalized =>
      LET mergedLatest == NonEmptyStringOf(GetField(n_merged, "latest"))
          discovered == GetField(n_base, "latest")
      IN  /\ n_out.latest # Null /\ n_out.latest # <<>>
          /\ n_out.latest = IF mergedLatest # Null THEN mergedLatest
                            ELSE IF Truthy(discovered) THEN discovered.v
                            ELSE LATEST
          /\ n_out.versions # <<>>
          /\ NoDuplicates(n_out.versions)
          /\ n_out.latest \in Range(n_out.versions)

\* Witness of C19: the overlay names 2.0.0 as latest and no versions; the
\* record's versions are 2.0.0 and the discovered 1.0.0.
C19_Witness ==
    /\ n_pc = "normalized"
    /\ GetField(n_entry, "latest") = JStr(V200)
    /\ GetField(n_base, "latest") = JStr(V100)
    /\ n_out.latest = V200
    /\ n_out.versions = <<V200, V100>>

\* The two lists have no element in common
Disjoint(a, b) == Range(a) \cap Range(b) = {}

\* C20 (as claimed) -- The three lists of compatibilitySummary of every
\* normalized record are pairwise disjoint.
C20_SummaryListsDisjoint ==
    Normalized =>
      /\ Disjoint(n_out.compatibilitySummary.workingBoards,
                  n_out.compatibilitySummary.brokenBoards)
      /\ Disjoint(n_out.compatibilitySummary.workingBoards,
                  n_out.compatibilitySummary.untestedBoards)
      /\ Disjoint(n_out.compatibilitySummary.brokenBoards,
                  n_out.compatibilitySummary.untestedBoards)

\* The members of the overlay entry that Object.keys walks
EntryMembers == IF Truthy(n_entry) THEN MembersOf(n_entry) ELSE <<>>

\* The keys of a list of members
KeysOf(members) == {members[i].k : i \in DOMAIN members}

\* The strings of an array value, trimmed, without the blank ones
TrimmedStrings(array) ==
    {trim(array.v[i].v) : i \in {j \in DOMAIN array.v :
                                   array.v[j].t = "string" /\ trim(array.v[j].v) # <<>>}}

\* The value is a string that is not blank
IsText(x) == x.t = "string" /\ trim(x.v) # <<>>

\* C15 (as claimed) -- For every field present in both the discovered record
\* and the overlay entry, the normalized record's value for that field equals
\* the overlay's value resolved recursively (the value of the merged record).
C15_NormalizedEqualsOverlay ==
    Normalized =>
      \A key \in KeysOf(EntryMembers) \cap KeysOf(n_base.v) :
        LET normalized == Get(RecordJson(n_out), key)
            resolved == Get(n_merged, key)
        IN  normalized.t = resolved.t /\ normalized.v = resolved.v

\* C15 (amended) -- Overlay precedence holds in the merged record, and in the
\* normalized record up to the re-derivation of its fields.  In the merged
\* record a field present in both holds the overlay's value, except that two
\* objects are merged key by key, the overlay's keys winning and the discovered
\* record's other keys kept; a field of the discovered record that the overlay
\* lacks is kept.  The normalized record has the discovered id whatever the
\* overlay says; its summary, license, latest, source.provider and supportStatus
\* are the overlay's when the overlay's value is a non-blank string (a
\* recognized status), trimmed; its tags are the overlay's tags trimmed, without
\* blanks and duplicates; its versions are the overlay's versions, trimmed,
\* together with latest.
C15_OverlayWinsInMerge ==
    /\ n_pc # "start" =>
         /\ \A key \in KeysOf(n_base.v) \ KeysOf(EntryMembers) :
              Get(n_merged, key) = Get(n_base, key)
         /\ \A key \in KeysOf(EntryMembers) \cap KeysOf(n_base.v) :
              LET discovered == Get(n_base, key)
                  overlay == Get(JObj(EntryMembers), key)
                  merged == Get(n_merged, key)
              IN  IF IsPlainObject(discovered) /\ IsPlainObject(overlay)
                    THEN /\ IsPlainObject(merged)
                         /\ KeysOf(merged.v) = KeysOf(discovered.v) \cup KeysOf(overlay.v)
                         /\ \A inner \in KeysOf(discovered.v) \ KeysOf(overlay.v) :
                              Get(merged, inner) = Get(discovered, inner)
                         /\ \A inner \in KeysOf(overlay.v) :
                              (IsPlainObject(Get(discovered, inner))
                               /\ IsPlainObject(Get(overlay, inner)))
                              \/ Get(merged, inner) = Get(overlay, inner)
                    ELSE merged.t = overlay.t /\ merged.v = overlay.v
    /\ Normalized =>
         LET overlay == JObj(EntryMembers)
             source == GetField(overlay, "source")
         IN  /\ n_out.id = GetField(n_base, "id").v
             /\ IsText(GetField(overlay, "summary")) =>
                  n_out.summary = trim(GetField(overlay, "summary").v)
             /\ IsText(GetField(overlay, "license")) =>
                  n_out.license = trim(GetField(overlay, "license").v)
             /\ IsText(GetField(overlay, "latest")) =>
                  n_out.latest = trim(GetField(overlay, "latest").v)
             /\ (IsPlainObject(source) /\ IsText(GetField(source, "provider"))) =>
                  /\ n_out.source.provider = trim(GetField(source, "provider").v)
                  /\ n_out.source.url = GetField(GetField(n_base, "source"), "url").v
             /\ (IsText(GetField(overlay, "supportStatus"))
                 /\ trim(GetField(overlay, "supportStatus").v) \in SUPPORT_STATUSES) =>
                  n_out.supportStatus = trim(GetField(overlay, "supportStatus").v)
             /\ GetField(overlay, "tags").t = "array" =>
                  /\ Range(n_out.tags) = TrimmedStrings(GetField(overlay, "tags"))
                  /\ NoDuplicates(n_out.tags)
             /\ GetField(overlay, "versions").t = "array" =>
                  Range(n_out.versions) =
                    TrimmedStrings(GetField(overlay, "versions")) \cup {n_out.latest}

\* Witness of C15: the overlay names the provider only; the record has the
\* overlay's provider and the discovered url.
C15_Witness ==
    /\ n_pc = "normalized"
    /\ n_entry = JObj(<< Field("source", JObj(<< Field("provider", JStr(GITHUB)) >>)) >>)
    /\ n_out.source.provider = GITHUB
    /\ n_out.source.url = LibraryUrl(ID_AX)
    /\ GetField(GetField(n_merged, "source"), "url") = JStr(LibraryUrl(ID_AX))

ExplicitBoards(x) ==
    IF x.t = "array" THEN TrimmedStrings(x)
    ELSE IF IsText(x) THEN {trim(x.v)}
    ELSE {}

SummaryLists == {"workingBoards", "brokenBoards", "untestedBoards"}

\* The status the boards of a list of the summary have
StatusOfList(list) ==
    CASE list = "workingBoards" -> WORKING
      [] list = "brokenBoards" -> BROKEN
      [] list = "untestedBoards" -> UNTESTED

\* The list is in ascending order and names no board twice
AscendingStrings(list) ==
    \A i, j \in DOMAIN list : i < j => localeCompare(list[i], list[j]) < 0

\* C21 -- compatibilitySummary, explicit or derived.  The normalized
\* boardCompatibility keeps exactly the merged entries with a non-blank board id
\* and a status of working, broken or untested.  If a list of the merged
\* compatibilitySummary names at least one board, the record's three lists name
\* the boards the merged lists name; otherwise each list names the boards of the
\* normalized boardCompatibility with the list's status.  The lists are sorted.
C21_SummaryExplicitOrDerived ==
    Normalized =>
      LET rawBoards == GetField(n_merged, "boardCompatibility")
          members == IF IsPlainObject(rawBoards) THEN rawBoards.v ELSE <<>>
          valid == {i \in DOMAIN members :
                      /\ trim(members[i].k) # <<>>
                      /\ IsPlainObject(members[i].v)
                      /\ GetField(members[i].v, "status").t = "string"
                      /\ GetField(members[i].v, "status").v \in COMPATIBILITY_STATUSES}
          raw == GetField(n_merged, "compatibilitySummary")
          explicit == [list \in SummaryLists |->
                         IF IsPlainObject(raw) THEN ExplicitBoards(GetField(raw, list)) ELSE {}]
          boards == n_out.boardCompatibility
      IN  /\ {[board |-> boards[i].board, status |-> boards[i].status] : i \in DOMAIN boards}
               = {[board |-> trim(members[i].k), status |-> GetField(members[i].v, "status").v] :
                    i \in valid}
          /\ \A list \in SummaryLists :
               /\ AscendingStrings(n_out.compatibilitySummary[list])
               /\ Range(n_out.compatibilitySummary[list]) =
                    IF \E other \in SummaryLists : explicit[other] # {}
                      THEN explicit[list]
                      ELSE {boards[i].board :
                              i \in {j \in DOMAIN boards : boards[j].status = StatusOfList(list)}}

\* Witness of C21: boards a (working) and b (broken), an entry with a blank id
\* and one that is no object, no explicit summary.
C21_Witness ==
    /\ n_pc = "normalized"
    /\ Len(GetField(n_entry, "boardCompatibility").v) = 4
    /\ IdsOf([i \in DOMAIN n_out.boardCompatibility |->
                [id |-> n_out.boardCompatibility[i].board]]) = << <<"a">>, <<"b">> >>
    /\ n_out.compatibilitySummary = Summary(<< <<"a">> >>, << <<"b">> >>, <<>>)

QualityFlags == { <<"hasExamples">>, <<"hasReadme">>, <<"maintainerVerified">> }

\* C22 (as claimed) -- In the quality object of every normalized record each of
\* hasExamples, hasReadme and maintainerVerified, if it appears, is a boolean.
C22_FlagsAreBooleans ==
    Normalized =>
      \A flag \in QualityFlags :
        HasKey(n_out.quality.v, flag) => Get(n_out.quality, flag).t = "boolean"

\* The parameter a placeholder stands for, by any of its accepted spellings
RoleOf(key) ==
    CASE key \in {"orgname", "owner", "org"} -> "orgname"
      [] key \in {"libname", "library", "name"} -> "libname"
      [] key \in {"semver_or_latest", "version", "semverOrLatest"} -> "semver_or_latest"
      [] OTHER -> "none"

\* The parameters run() passes for a candidate
ParamsOf(candidate) ==
    [orgname |-> candidate.parsed.owner,
     libname |-> candidate.parsed.libname,
     semver_or_latest |-> candidate.version]

\* The path of a candidate when every placeholder receives its parameter
InstantiatedPath(pathTemplate, params) ==
    [i \in DOMAIN pathTemplate |->
       IF pathTemplate[i].kind = "placeholder"
         THEN Text(encodeURIComponent(params[RoleOf(pathTemplate[i].key)]))
         ELSE pathTemplate[i]]

\* C23 (as claimed) -- Whichever accepted spelling the resolved template uses
\* for its placeholders, buildPathFromTemplate instantiates it for the candidate
\* at hand with the owner, the library name and the version, and no candidate
\* fails without a request having been made for it.
C23_EverySpellingInstantiates ==
    /\ (m_pc = "loop" /\ m_queue # <<>>) =>
         LET built == buildPathFromTemplate(m_template, ParamsOf(Head(m_queue)))
         IN  /\ built.ok
             /\ built.path = InstantiatedPath(m_template, ParamsOf(Head(m_queue)))
    /\ m_pc \in {"loop", "writeState", "done"} =>
         \A key \in DOMAIN h_outcome :
           h_outcome[key] = "failed" => h_requests[key] > 0

\* The service description the run fetched holds the artifact operation
DescriptionUsable(swagger) ==
    /\ swagger.kind = "doc"
    /\ swagger.hasPaths
    /\ \E i \in DOMAIN swagger.paths : swagger.paths[i].operationId = "getLibVersionXodball"

\* A mirror run is under way or over (no change from outside since)
InMirrorRun == h_run > 0 /\ m_pc # "idle"

\* C24 -- No service description, no run.  If neither location yields the
\* document, or the document has no operation getLibVersionXodball, the run is
\* aborted: no candidate was examined, no artifact requested, and manifest, state
\* and files are what the run found.  A run that examines candidates has fetched
\* a usable document at its start, and the template it instantiates for every
\* candidate is the one of that document.
C24_NoDescriptionAborts ==
    InMirrorRun =>
      /\ (h_start.swagger.kind # "notFetched" /\ ~DescriptionUsable(h_start.swagger)) =>
           m_pc = "aborted"
      /\ m_pc = "aborted" =>
           /\ h_outcome = EmptyMap /\ h_requests = EmptyMap
           /\ m_queue = <<>>
           /\ d_state = h_start.state
           /\ d_manifest = h_start.manifest
           /\ d_files = h_start.files
      /\ m_pc \in {"loop", "writeState", "done"} =>
           /\ DescriptionUsable(h_start.swagger)
           /\ \E i \in DOMAIN h_start.swagger.paths :
                /\ h_start.swagger.paths[i].operationId = "getLibVersionXodball"
                /\ m_template = h_start.swagger.paths[i].template

\* Witness of C24: a second run found a document without the operation; the
\* state the first run wrote is still in place.
C24_Witness ==
    /\ m_pc = "aborted" /\ h_run = 2
    /\ h_start.swagger = SwaggerWithoutOperation
    /\ d_state.present /\ d_state = h_start.state
    /\ d_manifest.present

\* The lowercase characters of an identifier's segments
SegmentChars == Range(LowerLetters) \cup Range(Digits) \cup {".", "_", "-"}

\* owner/name: one slash, a non-empty segment of SegmentChars on each side
WellFormedId(id) ==
    /\ Cardinality({i \in DOMAIN id : id[i] = "/"}) = 1
    /\ id[1] # "/" /\ id[Len(id)] # "/"
    /\ \A i \in DOMAIN id : id[i] = "/" \/ id[i] \in SegmentChars

\* out is the input without the whitespace around it and the slashes around
\* what is left, in lowercase
TrimmedStrippedLowercase(input, out) ==
    \E first, last \in DOMAIN input :
      /\ out = toLowerCase(SubSeq(input, first, last))
      /\ \E ws \in 0..(first - 1) :
           /\ \A i \in 1..ws : input[i] \in Whitespace
           /\ \A i \in (ws + 1)..(first - 1) : input[i] = "/"
      /\ \E ws \in (last + 1)..(Len(input) + 1) :
           /\ \A i \in (last + 1)..(ws - 1) : input[i] = "/"
           /\ \A i \in ws..Len(input) : input[i] \in Whitespace

\* C25 -- normalizeId.  For every argument the result is null or a well-formed
\* lowercase owner/name, which is the argument without the whitespace and the
\* slashes around it, in lowercase; normalizeId of a non-null result is that
\* result.  Foo/Bar and /foo/bar/ give foo/bar; foo, foo//bar and foo bar/baz
\* give null, as does a value that is no string.
C25_NormalizeId ==
    /\ i_pc \in {"normalized", "again"} =>
         /\ i_out # Null =>
              /\ i_input # Null
              /\ WellFormedId(i_out)
              /\ TrimmedStrippedLowercase(i_input, i_out)
         /\ i_input \in {ID_FOO_BAR_MIXED, ID_FOO_BAR_SLASHES, ID_FOO_BAR} => i_out = ID_FOO_BAR
         /\ i_input \in {Null, ID_FOO, ID_FOO_2_BAR, ID_FOO_BAR_BAZ} => i_out = Null
    /\ i_pc = "again" => i_again = i_out

\* Witness of C25: an identifier in mixed case between blanks and slashes, and
\* normalizeId applied to its result.
C25_Witness ==
    /\ i_pc = "again"
    /\ i_input = <<" ", "/">> \o ID_FOO_BAR_MIXED \o <<"/", "/", "\t">>
    /\ i_out = ID_FOO_BAR
    /\ i_again = ID_FOO_BAR

\* C26 -- fetchListPage and the crawl loop.  The candidate urls of a page are
\* requested once each and in order, the next one only after a 404.  A candidate
\* that answers with the page ends the loop with its text.  When every candidate
\* answered 404 the page is null: on page 1 the run fails, on a later page the
\* crawl stops and the run goes on with what it discovered.  Any other status,
\* or a throw of fetchHtmlWithRetry, on any candidate of any page fails the run.
C26_ListPageFailures ==
    s_pagesFetched > 0 =>
      LET tried == s_lastPage.tried
          last == tried[Len(tried)]
      IN  /\ Len(tried) \in 1..ListCandidateCount(s_lastPage.page)
          /\ \A i \in 1..(Len(tried) - 1) : tried[i] = "404"
          /\ last = "ok" => s_lastPage.kind = "html"
          /\ last = "404" =>
               /\ Len(tried) = ListCandidateCount(s_lastPage.page)
               /\ s_lastPage.kind = "null"
               /\ IF s_lastPage.page = 1
                    THEN s_pc = "failed" /\ s_failure = "initialPage"
                    ELSE /\ s_pc # "crawl"
                         /\ s_failure \notin {"listPage", "initialPage", "noLibraries"}
                         /\ s_uniqueIds # <<>>
          /\ last \in {"status", "throws"} =>
               /\ s_lastPage.kind = "throws"
               /\ s_pc = "failed" /\ s_failure = "listPage"
               /\ s_uniqueIds = <<>> /\ s_libraries = <<>>

\* Witness of C26: on page 2 the first candidate answered 404 and the second
\* one another status; the run failed with an identifier already discovered.
C26_Witness ==
    /\ s_pc = "failed" /\ s_failure = "listPage"
    /\ s_lastPage.page = 2
    /\ s_lastPage.tried = <<"404", "status">>
    /\ s_discoveredIds # <<>>

\* Second witness of C26: both candidates of page 2 answered 404 and the run
\* went on to the detail loop.
C26_GracefulStop ==
    /\ s_pc = "detail"
    /\ s_lastPage.page = 2
    /\ s_lastPage.tried = <<"404", "404">>

\* ========================================================================
\* Further properties of the fetch layer (SpecFetch)
\* ========================================================================

\* A response that is not a success and whose status is none of the retryable ones
FinalStatus(status) ==
    /\ status # 0
    /\ ~ResponseOk(status)
    /\ status \notin SpecRetryableStatuses

\* C27 -- In both layers a non-success response with a non-retryable status ends
\* the call with that attempt: no backoff follows it (the waits are those of the
\* attempts before) and no further request is made.  fetchHtmlWithRetry has
\* returned the non-ok result with that status; fetchJsonWithRetry has thrown,
\* with HTTP <status> as the last error.
C27_NonRetryableEndsCall ==
    FinalStatus(f_lastStatus) =>
        /\ f_requests = f_attempt
        /\ Len(f_waits) = f_attempt - 1
        /\ f_layer = "html" =>
             /\ f_pc = "returned"
             /\ f_result = [kind |-> "html", ok |-> FALSE, status |-> f_lastStatus, url |-> f_url]
        /\ f_layer = "json" =>
             /\ f_pc = "thrown"
             /\ f_result.kind = "exhausted"
             /\ f_result.last = HttpError(f_lastStatus)

\* C27 -- ... and the call stays ended: from there only a new call follows.
C27_NoFurtherAttempt ==
    [][FinalStatus(f_lastStatus) => (f_pc' = "loopTop" /\ f_requests' = 0)]_fetchVars

\* Witness of C27: a json call answered 404 on its second attempt, after one
\* backoff, has thrown.
C27_Witness ==
    /\ f_layer = "json" /\ f_pc = "thrown"
    /\ f_lastStatus = 404
    /\ f_attempt = 2 /\ f_requests = 2 /\ Len(f_waits) = 1

\* Second witness of C27: an html call answered 403 on its first attempt has
\* returned the result.
C27_HtmlWitness ==
    /\ f_layer = "html" /\ f_pc = "returned"
    /\ f_lastStatus = 403 /\ f_requests = 1 /\ f_waits = <<>>

\* C29 (as claimed) -- Whenever a call of either layer has thrown its failure,
\* the attempt count the error states is the number of requests the call made
\* for the url, and the error carries the last error the call observed.
C29_ErrorStatesAttempts ==
    f_pc = "thrown" =>
        /\ f_result.kind = "exhausted"
        /\ f_result.url = f_url
        /\ f_result.attempts = f_requests
        /\ f_result.last = f_lastError

\* ========================================================================
\* Further properties of the mirror (SpecMirror)
\* ========================================================================

\* The manifest and the state on disk were written by the same run (both carry
\* that run's generatedAt)
WrittenBySameRun ==
    /\ d_manifest.present /\ d_state.present
    /\ d_manifest.generatedAt = d_state.generatedAt

\* id first, version second, both in the order of localeCompare
IdThenVersionBefore(a, b) ==
    \/ localeCompare(a.id, b.id) < 0
    \/ a.id = b.id /\ localeCompare(a.version, b.version) < 0

\* C28 -- The manifest a run writes lists exactly the entries of the state the
\* same run writes, each once, sorted by id and then by version, and its
\* stats.totalMirroredArtifacts is the number of entries of that state.
C28_ManifestIsViewOfState ==
    WrittenBySameRun =>
        LET listed == d_manifest.artifacts
            entries == d_state.artifacts
        IN  /\ {listed[i] : i \in DOMAIN listed} = {entries[k] : k \in DOMAIN entries}
            /\ Len(listed) = Cardinality(DOMAIN entries)
            /\ \A i, j \in DOMAIN listed : i < j => IdThenVersionBefore(listed[i], listed[j])
            /\ d_manifest.stats.totalMirroredArtifacts = Cardinality(DOMAIN entries)

\* Witness of C28: the second run has written both documents; they hold two
\* entries or more, one of them mirrored by the first run.
C28_Witness ==
    /\ m_pc = "done" /\ h_run = 2
    /\ WrittenBySameRun /\ d_state.generatedAt = 2
    /\ Cardinality(DOMAIN d_state.artifacts) >= 2
    /\ \E k \in DOMAIN d_state.artifacts : d_state.artifacts[k].mirroredAt = 1

\* C30 -- In every run, after each candidate handled and at the end of the run,
\* stats.totalCandidates = downloaded + skippedExisting + failed, and the three
\* counters count the candidates that ended in that outcome.
C30_CandidatesAddUp ==
    m_pc \in {"loop", "writeState", "done"} =>
        /\ m_stats.totalCandidates
             = m_stats.downloaded + m_stats.skippedExisting + m_stats.failed
        /\ m_pc \in {"writeState", "done"} =>
             /\ d_manifest.stats.totalCandidates
                  = d_manifest.stats.downloaded + d_manifest.stats.skippedExisting
                      + d_manifest.stats.failed
             /\ d_manifest.stats.totalCandidates = m_stats.totalCandidates

\* Witness of C30: the second run has ended with one candidate skipped and one
\* failed.
C30_Witness ==
    /\ m_pc = "done" /\ h_run = 2
    /\ m_stats = [totalCandidates |-> 2, downloaded |-> 0, skippedExisting |-> 1, failed |-> 1]

\* A path that names something inside the directory `dir`
Inside(dir, path) ==
    /\ Len(path) > Len(dir)
    /\ SubSeq(path, 1, Len(dir)) = dir

\* C31 (as claimed) -- Every artifact file the mirror writes lies inside
\* mirror/libs, whatever the catalog's ids (as accepted by normalizeId, segments
\* made only of dots included) and versions.
C31_FilesInsideMirrorLibs ==
    \A path \in DOMAIN d_files : Inside(MIRROR_LIBS_DIR, path)

\* C32 (as claimed) -- At every point of a run, an end between its two final
\* writes included, the manifest and the state on disk describe the same set of
\* artifacts: neither exists yet, or both were written by the same run and list
\* the same entries.
C32_ManifestAndStateAgree ==
    InMirrorRun =>
        \/ ~d_manifest.present /\ ~d_state.present
        \/ /\ WrittenBySameRun
           /\ {d_manifest.artifacts[i] : i \in DOMAIN d_manifest.artifacts}
                = {d_state.artifacts[k] : k \in DOMAIN d_state.artifacts}

\* The second run ended between its two writes after a download: the manifest is
\* the second run's and lists an entry the state, still the first run's, lacks.
C32_Interrupted ==
    /\ m_pc = "interrupted" /\ h_run = 2
    /\ d_manifest.generatedAt = 2 /\ d_state.generatedAt = 1
    /\ \E i \in DOMAIN d_manifest.artifacts :
         \A k \in DOMAIN d_state.artifacts : d_state.artifacts[k] # d_manifest.artifacts[i]

====
